---------------------------- MODULE Spec2Model ----------------------------
(***************************************************************************)
(* Model of rust/src/enip/detect.rs: the cip_service rule grammar          *)
(* (enip_parse_cip_service) and the recursive CIP match functions          *)
(* (enip_cip_match_service, _status, _extendedstatus, _segment,            *)
(* _attribute).                                                            *)
(*                                                                         *)
(* Conventions.                                                            *)
(*   - A rule text is a sequence of one-character strings.                 *)
(*   - Option<T> is a sequence: <<>> is None, <<x>> is Some(x).            *)
(*   - A u32 is the pair <<hi, lo>> of its 16-bit halves (value            *)
(*     hi * 65536 + lo), so that the whole 32-bit range and its overflow   *)
(*     are representable; u8 and u16 are plain integers.                   *)
(*   - A nom IResult is [ok |-> FALSE] or [ok |-> TRUE, rest, out].        *)
(***************************************************************************)
EXTENDS Integers, Sequences, FiniteSets, TLC

VARIABLES
    rule_parts,   \* how the rule text under parse was put together (ghost)
    rule_text,    \* the rule text handed to enip_parse_cip_service
    parse_pc,     \* "ready" before the parse, "done" after it
    parse_ret,    \* the IResult of the parse
    m_d,          \* the CipData under evaluation
    m_call,       \* the last match call: [family, ctx, segment_type]
    m_ret,        \* the c_int the last match call returned
    m_trace,      \* the CipData nodes the last call evaluated, in order (ghost)
    tx,           \* the EnipTransaction under evaluation
    tx_call,      \* the last keyword callback run on tx: [fn, direction, ctx]
    tx_ret,       \* what that callback extracted and returned
    tx_prev,      \* the callback run before the last one, and its result (ghost)
    sig,          \* the Signature under load: rule options, alproto, match list
    heap,         \* the predicates allocated so far, in order of allocation
    setup_call,   \* the last setup call, what it was given and returned (ghost)
    shared,       \* what concurrent match calls share: the predicate, the statics
    threads       \* per thread: its transaction, its call and where the call is

vars ==
    <<rule_parts, rule_text, parse_pc, parse_ret, m_d, m_call, m_ret, m_trace,
      tx, tx_call, tx_ret, tx_prev, sig, heap, setup_call, shared, threads>>

tx_vars == <<tx, tx_call, tx_ret, tx_prev>>

rules_vars == <<sig, heap, setup_call>>

thread_vars == <<shared, threads>>

parse_vars == <<rule_parts, rule_text, parse_pc, parse_ret>>
match_vars == <<m_d, m_call, m_ret, m_trace>>

(***************************************************************************)
(* Bounds of the model.                                                    *)
(***************************************************************************)
\* longest run of blanks put in one slot of a generated rule text
MaxWs == 2
\* longest packet_list of a generated Multiple-Service envelope
MaxList == 2
\* longest path of a generated request
MaxPath == 2
\* longest status_extended of a generated response
MaxExt == 3
MaxItems == 2
\* most keyword options in a rule under load
MaxOptions == 2
\* most predicates allocated in one behaviour
MaxBoxes == 3
\* threads that run match callbacks at the same time
MaxThreads == 2

(***************************************************************************)
(* Option and integer helpers.                                             *)
(***************************************************************************)
None == <<>>
Some(x) == <<x>>

SP == " "
TAB == "\t"
Blanks == {SP, TAB}
DigitSeq == <<"0", "1", "2", "3", "4", "5", "6", "7", "8", "9">>
DigitChars == {DigitSeq[k] : k \in 1..10}
DigitVal(c) == (CHOOSE k \in 1..10 : DigitSeq[k] = c) - 1

Drop(s, n) == SubSeq(s, n + 1, Len(s))
Take(s, n) == SubSeq(s, 1, n)

RECURSIVE SpanLen(_, _)
\* length of the longest prefix of i made of characters of cs
SpanLen(i, cs) ==
    IF i = <<>> \/ Head(i) \notin cs THEN 0 ELSE 1 + SpanLen(Tail(i), cs)

(***************************************************************************)
(* nom combinators, as used by the parser.                                 *)
(***************************************************************************)
NomErr == [ok |-> FALSE]
NomOk(rest, out) == [ok |-> TRUE, rest |-> rest, out |-> out]

\* a variant that strips spaces only
space0_SpacesOnly(i) ==
    LET n == SpanLen(i, {SP}) IN NomOk(Drop(i, n), Take(i, n))

\* space0: zero or more spaces and tabs; never fails
space0(i) ==
    LET n == SpanLen(i, Blanks) IN NomOk(Drop(i, n), Take(i, n))

\* digit1: one or more ASCII digits; fails on none
digit1(i) ==
    LET n == SpanLen(i, DigitChars)
    IN  IF n = 0 THEN NomErr ELSE NomOk(Drop(i, n), Take(i, n))

\* opt(char(c)): consumes c when it is next; never fails
opt_char(i, c) ==
    IF i # <<>> /\ Head(i) = c THEN NomOk(Tail(i), Some(c)) ELSE NomOk(i, None)

(***************************************************************************)
(* str::parse::<u8> and str::parse::<u32> on a digit string: checked       *)
(* multiply by ten and add, None on overflow.                              *)
(***************************************************************************)
RECURSIVE ParseU8From(_, _)
ParseU8From(s, acc) ==
    IF s = <<>> THEN Some(acc)
    ELSE LET nxt == acc * 10 + DigitVal(Head(s))
         IN  IF nxt > 255 THEN None ELSE ParseU8From(Tail(s), nxt)

ParseU8(s) == IF s = <<>> THEN None ELSE ParseU8From(s, 0)

\* a variant whose arithmetic wraps modulo 2^32
MulAddU32_Wrapping(acc, d) ==
    LET lo10 == acc[2] * 10 + d
        hi10 == acc[1] * 10 + (lo10 \div 65536)
    IN  Some(<<hi10 % 65536, lo10 % 65536>>)

\* acc * 10 + d on a u32 held as <<hi, lo>>; None when it leaves 32 bits
MulAddU32(acc, d) ==
    LET lo10 == acc[2] * 10 + d
        hi10 == acc[1] * 10 + (lo10 \div 65536)
    IN  IF hi10 > 65535 THEN None ELSE Some(<<hi10, lo10 % 65536>>)

RECURSIVE ParseU32From(_, _)
ParseU32From(s, acc) ==
    IF s = <<>> THEN Some(acc)
    ELSE LET nxt == MulAddU32(acc, DigitVal(Head(s)))
         IN  IF nxt = None THEN None ELSE ParseU32From(Tail(s), nxt[1])

ParseU32(s) == IF s = <<>> THEN None ELSE ParseU32From(s, <<0, 0>>)

(***************************************************************************)
(* enip_parse_cip_service                                                  *)
(***************************************************************************)
\* verify(map_opt(digit1, |s| s.parse::<u8>().ok()), |&v| v < 0x80)
service_field(i) ==
    LET r == digit1(i)
        v == ParseU8(r.out)
    IN  IF ~r.ok THEN NomErr
        ELSE IF v = None THEN NomErr
        ELSE IF ~(v[1] < 128) THEN NomErr
        ELSE NomOk(r.rest, v[1])

\* map_opt(digit1, |s| s.parse::<u32>().ok())
u32_field(i) ==
    LET r == digit1(i)
        v == ParseU32(r.out)
    IN  IF ~r.ok THEN NomErr
        ELSE IF v = None THEN NomErr
        ELSE NomOk(r.rest, v[1])

DetectCipServiceData(service, class, attribute) ==
    [service |-> service, class |-> class, attribute |-> attribute]

\* a variant that accepts whatever is left
parse_finish_NoCheck(input, service, class, attribute) ==
    LET r == space0(input)
    IN  NomOk(r.rest, DetectCipServiceData(service, class, attribute))

\* the tail of the parser: blanks, then nothing may be left
parse_finish(input, service, class, attribute) ==
    LET r == space0(input)
    IN  IF r.rest # <<>> THEN NomErr
        ELSE NomOk(r.rest, DetectCipServiceData(service, class, attribute))

\* a variant that keeps a negated attribute
parse_attribute_value_KeepNegated(negation, attr1) == Some(attr1)

\* the attribute kept by the parser: dropped when '!' was written
parse_attribute_value(negation, attr1) ==
    IF negation = None THEN Some(attr1) ELSE None

\* the part of the parser after the second comma
parse_after_comma2(i, service, class1) ==
    LET i1 == space0(i).rest
        n  == opt_char(i1, "!")
        a  == u32_field(n.rest)
    IN  IF ~a.ok THEN NomErr
        ELSE parse_finish(a.rest, service, Some(class1),
                          parse_attribute_value(n.out, a.out))

\* the part of the parser after the first comma
parse_after_comma1(i, service) ==
    LET i1 == space0(i).rest
        c  == u32_field(i1)
        i2 == space0(c.rest).rest
        k  == opt_char(i2, ",")
    IN  IF ~c.ok THEN NomErr
        ELSE IF k.out # None THEN parse_after_comma2(k.rest, service, c.out)
        ELSE parse_finish(k.rest, service, Some(c.out), None)

enip_parse_cip_service(i) ==
    LET i1 == space0(i).rest
        s  == service_field(i1)
        i2 == space0(s.rest).rest
        k  == opt_char(i2, ",")
    IN  IF ~s.ok THEN NomErr
        ELSE IF k.out # None THEN parse_after_comma1(k.rest, s.out)
        ELSE parse_finish(k.rest, s.out, None, None)


(***************************************************************************)
(* The decoded CIP data model (super::parser), as detect.rs reads it.      *)
(***************************************************************************)
CIP_MULTIPLE_SERVICE == 10

Segment(t, v) == [segment_type |-> t, value |-> v]

OtherPayload == [kind |-> "Other"]
GetAttributeList(l) == [kind |-> "GetAttributeList", attr_list |-> l]
SetAttributeList(f) == [kind |-> "SetAttributeList", first_attr |-> f]
Multiple(l) == [kind |-> "Multiple", packet_list |-> l]

CipDirRequest(path, payload) ==
    [dir |-> "Request", path |-> path, payload |-> payload]
CipDirResponse(status, ext, payload) ==
    [dir |-> "Response", status |-> status, status_extended |-> ext,
     payload |-> payload]
CipDirNone == [dir |-> "None"]

CipData(service, cipdir) == [service |-> service, cipdir |-> cipdir]

(***************************************************************************)
(* Integer operations of the match code.                                   *)
(***************************************************************************)
\* x >> 2 on a u8
Shr2(x) == x \div 4

\* u32::from(x: u16), and x.into() from u16 to u32
U32FromU16(x) == <<0, x>>

RECURSIVE BitOr(_, _)
\* a | b on naturals
BitOr(a, b) ==
    IF a = 0 THEN b
    ELSE IF b = 0 THEN a
    ELSE (IF a % 2 = 1 \/ b % 2 = 1 THEN 1 ELSE 0)
         + 2 * BitOr(a \div 2, b \div 2)

\* (x as u16) << 8
ShlU16By8(x) == (x * 256) % 65536

\* a variant that shifts the byte before widening it: x << 8 on a u8
ExtendedStatusValue_ShiftU8(status_extended) ==
    BitOr((status_extended[2] * 256) % 256, status_extended[1])

\* ((status_extended[1] as u16) << 8) | (status_extended[0] as u16)
ExtendedStatusValue(status_extended) ==
    BitOr(ShlU16By8(status_extended[2]), status_extended[1])

(***************************************************************************)
(* crate::detect::uint: a numeric predicate DetectUintData<T> and          *)
(* detect_match_uint.  u8 and u16 values are integers, u32 values pairs.   *)
(***************************************************************************)
DetectUintData(mode, arg1) == [mode |-> mode, arg1 |-> arg1]

detect_match_uint(ctx, val) ==
    CASE ctx.mode = "Equal" -> val = ctx.arg1
      [] ctx.mode = "Ne"    -> val # ctx.arg1
      [] ctx.mode = "Lt"    -> val < ctx.arg1
      [] ctx.mode = "Gt"    -> val > ctx.arg1

U32Less(a, b) == a[1] < b[1] \/ (a[1] = b[1] /\ a[2] < b[2])

detect_match_uint_u32(ctx, val) ==
    CASE ctx.mode = "Equal" -> val = ctx.arg1
      [] ctx.mode = "Ne"    -> val # ctx.arg1
      [] ctx.mode = "Lt"    -> U32Less(val, ctx.arg1)
      [] ctx.mode = "Gt"    -> U32Less(ctx.arg1, val)

(***************************************************************************)
(* The match functions.  Each returns [ret, trace]: ret is the c_int the   *)
(* function returns, trace the CipData nodes it was called on, in call     *)
(* order; a node is named by its position `at`: <<>> is the CipData of the *)
(* outermost call, Append(at, k) entry k of the packet_list of node at.    *)
(***************************************************************************)
Eval(ret, trace) == [ret |-> ret, trace |-> trace]

enip_cip_has_attribute(cipdir, attr) ==
    IF cipdir.dir = "Request"
    THEN IF \E k \in 1..Len(cipdir.path) :
                /\ Shr2(cipdir.path[k].segment_type) = 12
                /\ cipdir.path[k].value = attr
         THEN 1
         ELSE IF cipdir.payload.kind = "GetAttributeList"
         THEN IF \E k \in 1..Len(cipdir.payload.attr_list) :
                     attr = U32FromU16(cipdir.payload.attr_list[k])
              THEN 1 ELSE 0
         ELSE IF cipdir.payload.kind = "SetAttributeList"
         THEN IF /\ cipdir.payload.first_attr # None
                 /\ attr = U32FromU16(cipdir.payload.first_attr[1])
              THEN 1 ELSE 0
         ELSE 0
    ELSE 0

\* a variant that takes only segment_type 0x20, low bits clear, for a class
enip_cip_has_class_NoShift(cipdir, class) ==
    /\ cipdir.dir = "Request"
    /\ \E k \in 1..Len(cipdir.path) :
          /\ cipdir.path[k].segment_type = 8 * 4
          /\ cipdir.path[k].value = class

enip_cip_has_class(cipdir, class) ==
    /\ cipdir.dir = "Request"
    /\ \E k \in 1..Len(cipdir.path) :
          /\ Shr2(cipdir.path[k].segment_type) = 8
          /\ cipdir.path[k].value = class

\* a variant in which a predicate with an attribute is decided by the
\* attribute alone
match_service_direct_AttributeFirst(d, ctx) ==
    IF ctx.class # None
    THEN IF ctx.attribute # None
         THEN enip_cip_has_attribute(d.cipdir, ctx.attribute[1])
         ELSE IF enip_cip_has_class(d.cipdir, ctx.class[1]) THEN 1 ELSE 0
    ELSE 1

\* the branch of enip_cip_match_service taken when d.service == ctx.service
match_service_direct(d, ctx) ==
    IF ctx.class # None
    THEN IF enip_cip_has_class(d.cipdir, ctx.class[1])
         THEN IF ctx.attribute # None
              THEN enip_cip_has_attribute(d.cipdir, ctx.attribute[1])
              ELSE 1
         ELSE 0
    ELSE 1

\* the packet_list a `for p in m.packet_list.iter()` loop of node d runs over
\* when d's payload is Multiple; <<>> when it is not
PacketList(d) ==
    IF d.cipdir.dir \in {"Request", "Response"}
       /\ d.cipdir.payload.kind = "Multiple"
    THEN d.cipdir.payload.packet_list
    ELSE <<>>

RECURSIVE enip_cip_match_service(_, _, _)
RECURSIVE match_service_list(_, _, _, _)

\* a variant that returns after the first entry, matched or not
match_service_list_FirstOnly(list, ctx, at, k) ==
    IF k > Len(list) THEN Eval(0, <<>>)
    ELSE enip_cip_match_service(list[k], ctx, Append(at, k))

\* for p in m.packet_list.iter() { if enip_cip_match_service(p, ctx) == 1
\* { return 1; } }, from entry k on
match_service_list(list, ctx, at, k) ==
    IF k > Len(list) THEN Eval(0, <<>>)
    ELSE LET r == enip_cip_match_service(list[k], ctx, Append(at, k))
         IN  IF r.ret = 1 THEN r
             ELSE LET rest == match_service_list(list, ctx, at, k + 1)
                  IN  Eval(rest.ret, r.trace \o rest.trace)

enip_cip_match_service(d, ctx, at) ==
    IF d.service = ctx.service
    THEN Eval(match_service_direct(d, ctx), <<at>>)
    ELSE IF d.service = CIP_MULTIPLE_SERVICE
    THEN LET r == match_service_list(PacketList(d), ctx, at, 1)
         IN  Eval(r.ret, <<at>> \o r.trace)
    ELSE Eval(0, <<at>>)

RECURSIVE enip_cip_match_status(_, _, _)
RECURSIVE match_status_list(_, _, _, _)

\* a variant that returns after the first entry, matched or not
match_status_list_FirstOnly(list, ctx, at, k) ==
    IF k > Len(list) THEN Eval(0, <<>>)
    ELSE enip_cip_match_status(list[k], ctx, Append(at, k))

match_status_list(list, ctx, at, k) ==
    IF k > Len(list) THEN Eval(0, <<>>)
    ELSE LET r == enip_cip_match_status(list[k], ctx, Append(at, k))
         IN  IF r.ret = 1 THEN r
             ELSE LET rest == match_status_list(list, ctx, at, k + 1)
                  IN  Eval(rest.ret, r.trace \o rest.trace)

\* a variant that searches the packet_list of a Request as well
enip_cip_match_status_AnyDir(d, ctx, at) ==
    IF d.cipdir.dir = "Response" /\ detect_match_uint(ctx, d.cipdir.status)
    THEN Eval(1, <<at>>)
    ELSE LET r == match_status_list(PacketList(d), ctx, at, 1)
         IN  Eval(r.ret, <<at>> \o r.trace)

\* a variant that searches the packet_list only under CIP_MULTIPLE_SERVICE
enip_cip_match_status_ServiceTested(d, ctx, at) ==
    IF d.cipdir.dir = "Response"
    THEN IF detect_match_uint(ctx, d.cipdir.status)
         THEN Eval(1, <<at>>)
         ELSE IF d.service = CIP_MULTIPLE_SERVICE
         THEN LET r == match_status_list(PacketList(d), ctx, at, 1)
              IN  Eval(r.ret, <<at>> \o r.trace)
         ELSE Eval(0, <<at>>)
    ELSE Eval(0, <<at>>)

enip_cip_match_status(d, ctx, at) ==
    IF d.cipdir.dir = "Response"
    THEN IF detect_match_uint(ctx, d.cipdir.status)
         THEN Eval(1, <<at>>)
         ELSE LET r == match_status_list(PacketList(d), ctx, at, 1)
              IN  Eval(r.ret, <<at>> \o r.trace)
    ELSE Eval(0, <<at>>)

\* a variant that reads the first two bytes of any longer status_extended
extendedstatus_has_value_AtLeast2(status_extended) ==
    Len(status_extended) >= 2

\* resp.status_extended.len() == 2
extendedstatus_has_value(status_extended) ==
    Len(status_extended) = 2

RECURSIVE enip_cip_match_extendedstatus(_, _, _)
RECURSIVE match_extendedstatus_list(_, _, _, _)

\* a variant that keeps evaluating the entries after one has matched
match_extendedstatus_list_NoBreak(list, ctx, at, k) ==
    IF k > Len(list) THEN Eval(0, <<>>)
    ELSE LET r == enip_cip_match_extendedstatus(list[k], ctx, Append(at, k))
             rest == match_extendedstatus_list(list, ctx, at, k + 1)
         IN  Eval(IF r.ret = 1 \/ rest.ret = 1 THEN 1 ELSE 0,
                  r.trace \o rest.trace)

match_extendedstatus_list(list, ctx, at, k) ==
    IF k > Len(list) THEN Eval(0, <<>>)
    ELSE LET r == enip_cip_match_extendedstatus(list[k], ctx, Append(at, k))
         IN  IF r.ret = 1 THEN r
             ELSE LET rest == match_extendedstatus_list(list, ctx, at, k + 1)
                  IN  Eval(rest.ret, r.trace \o rest.trace)

enip_cip_match_extendedstatus(d, ctx, at) ==
    IF d.cipdir.dir = "Response"
    THEN IF /\ extendedstatus_has_value(d.cipdir.status_extended)
            /\ detect_match_uint(ctx,
                   ExtendedStatusValue(d.cipdir.status_extended))
         THEN Eval(1, <<at>>)
         ELSE LET r == match_extendedstatus_list(PacketList(d), ctx, at, 1)
              IN  Eval(r.ret, <<at>> \o r.trace)
    ELSE Eval(0, <<at>>)

RECURSIVE enip_cip_match_segment(_, _, _, _)
RECURSIVE match_segment_list(_, _, _, _, _)

match_segment_list(list, ctx, segment_type, at, k) ==
    IF k > Len(list) THEN Eval(0, <<>>)
    ELSE LET r == enip_cip_match_segment(list[k], ctx, segment_type,
                                         Append(at, k))
         IN  IF r.ret = 1 THEN r
             ELSE LET rest == match_segment_list(list, ctx, segment_type,
                                                 at, k + 1)
                  IN  Eval(rest.ret, r.trace \o rest.trace)

\* a variant that takes a segment of any classification
enip_cip_match_segment_AnyKind(d, ctx, segment_type, at) ==
    IF d.cipdir.dir = "Request"
    THEN IF \E k \in 1..Len(d.cipdir.path) :
                detect_match_uint_u32(ctx, d.cipdir.path[k].value)
         THEN Eval(1, <<at>>)
         ELSE LET r == match_segment_list(PacketList(d), ctx, segment_type,
                                          at, 1)
              IN  Eval(r.ret, <<at>> \o r.trace)
    ELSE Eval(0, <<at>>)

enip_cip_match_segment(d, ctx, segment_type, at) ==
    IF d.cipdir.dir = "Request"
    THEN IF \E k \in 1..Len(d.cipdir.path) :
                /\ Shr2(d.cipdir.path[k].segment_type) = segment_type
                /\ detect_match_uint_u32(ctx, d.cipdir.path[k].value)
         THEN Eval(1, <<at>>)
         ELSE LET r == match_segment_list(PacketList(d), ctx, segment_type,
                                          at, 1)
              IN  Eval(r.ret, <<at>> \o r.trace)
    ELSE Eval(0, <<at>>)

RECURSIVE enip_cip_match_attribute(_, _, _)
RECURSIVE match_attribute_list(_, _, _, _)

\* a variant that returns after the first entry, matched or not
match_attribute_list_FirstOnly(list, ctx, at, k) ==
    IF k > Len(list) THEN Eval(0, <<>>)
    ELSE enip_cip_match_attribute(list[k], ctx, Append(at, k))

match_attribute_list(list, ctx, at, k) ==
    IF k > Len(list) THEN Eval(0, <<>>)
    ELSE LET r == enip_cip_match_attribute(list[k], ctx, Append(at, k))
         IN  IF r.ret = 1 THEN r
             ELSE LET rest == match_attribute_list(list, ctx, at, k + 1)
                  IN  Eval(rest.ret, r.trace \o rest.trace)

enip_cip_match_attribute(d, ctx, at) ==
    IF d.cipdir.dir = "Request"
    THEN IF \E k \in 1..Len(d.cipdir.path) :
                /\ Shr2(d.cipdir.path[k].segment_type) = 12
                /\ detect_match_uint_u32(ctx, d.cipdir.path[k].value)
         THEN Eval(1, <<at>>)
         ELSE IF d.cipdir.payload.kind = "GetAttributeList"
         THEN Eval(IF \E k \in 1..Len(d.cipdir.payload.attr_list) :
                          detect_match_uint_u32(ctx,
                              U32FromU16(d.cipdir.payload.attr_list[k]))
                   THEN 1 ELSE 0, <<at>>)
         ELSE IF d.cipdir.payload.kind = "SetAttributeList"
         THEN Eval(IF /\ d.cipdir.payload.first_attr # None
                      /\ detect_match_uint_u32(ctx,
                             U32FromU16(d.cipdir.payload.first_attr[1]))
                   THEN 1 ELSE 0, <<at>>)
         ELSE IF d.cipdir.payload.kind = "Multiple"
         THEN LET r == match_attribute_list(d.cipdir.payload.packet_list,
                                            ctx, at, 1)
              IN  Eval(r.ret, <<at>> \o r.trace)
         ELSE Eval(0, <<at>>)
    ELSE Eval(0, <<at>>)

(***************************************************************************)
(* Rule texts under parse.  A text is put together from number tokens,     *)
(* runs of blanks, commas, an optional '!' and a tail:                     *)
(*     w1 s w2 [ "," w3 c w4 [ "," w5 ["!"] a w6 ] ] tail                  *)
(* Each number token carries the value it denotes, written out by hand:    *)
(* v is Some(<<hi, lo>>) for a digit string that fits 32 bits and None for *)
(* any other token.                                                        *)
(***************************************************************************)
Tok(d, v) == [d |-> d, v |-> v]

T_0       == Tok(<<"0">>, Some(<<0, 0>>))
T_1       == Tok(<<"1">>, Some(<<0, 1>>))
T_2       == Tok(<<"2">>, Some(<<0, 2>>))
T_3       == Tok(<<"3">>, Some(<<0, 3>>))
T_12      == Tok(<<"1", "2">>, Some(<<0, 12>>))
T_007     == Tok(<<"0", "0", "7">>, Some(<<0, 7>>))
T_123     == Tok(<<"1", "2", "3">>, Some(<<0, 123>>))
T_127     == Tok(<<"1", "2", "7">>, Some(<<0, 127>>))
T_128     == Tok(<<"1", "2", "8">>, Some(<<0, 128>>))
T_202     == Tok(<<"2", "0", "2">>, Some(<<0, 202>>))
T_256     == Tok(<<"2", "5", "6">>, Some(<<0, 256>>))
T_45678   == Tok(<<"4", "5", "6", "7", "8">>, Some(<<0, 45678>>))
T_65537   == Tok(<<"6", "5", "5", "3", "7">>, Some(<<1, 1>>))
T_U32Max  == Tok(<<"4", "2", "9", "4", "9", "6", "7", "2", "9", "5">>,
                 Some(<<65535, 65535>>))
T_U32Over == Tok(<<"4", "2", "9", "4", "9", "6", "7", "2", "9", "6">>, None)
T_Long    == Tok(<<"9", "9", "9", "9", "9", "9", "9", "9", "9", "9", "9">>, None)
T_Empty   == Tok(<<>>, None)
T_toto    == Tok(<<"t", "o", "t", "o">>, None)
T_Minus1  == Tok(<<"-", "1">>, None)

ServiceToks == {T_1, T_0, T_12, T_007, T_123, T_127, T_128, T_202, T_256,
                T_Empty, T_toto}
ClassToks   == {T_2, T_123, T_65537, T_U32Max, T_U32Over, T_Empty, T_toto}
AttrToks    == {T_3, T_45678, T_U32Max, T_U32Over, T_Long, T_Empty, T_Minus1}

\* a run of n blanks, alternating, that starts with c
RECURSIVE BlankRun(_, _)
BlankRun(n, c) ==
    IF n = 0 THEN <<>>
    ELSE <<c>> \o BlankRun(n - 1, IF c = SP THEN TAB ELSE SP)

WsRuns == {BlankRun(n, SP) : n \in 0..MaxWs} \cup {<<TAB>>}

Tails == { <<>>, <<",", "4">>, <<"x">>, <<",">>, <<"!", "3">>, <<"3">>,
           <<",", SP>> }

NoWs == [k \in 1..6 |-> <<>>]

\* every slot of blanks varies on its own, around well-formed numbers
PartsWs ==
    { [n |-> n, s |-> T_12, c |-> T_123, a |-> T_45678, neg |-> neg,
       w |-> w, tail |-> <<>>] :
        n \in 1..3, neg \in BOOLEAN, w \in [1..6 -> WsRuns] }

\* every number token and tail varies, with the same blanks in every slot
PartsNum ==
    { [n |-> n, s |-> s, c |-> c, a |-> a, neg |-> neg,
       w |-> [k \in 1..6 |-> r], tail |-> t] :
        n \in 1..3, s \in ServiceToks, c \in ClassToks, a \in AttrToks,
        neg \in BOOLEAN, r \in {<<>>, <<SP>>}, t \in Tails }

\* the fields a text of n fields does not write are left out of its parts
Canonical(p) ==
    /\ p.n < 3 => p.a \in {T_3, T_45678} /\ ~p.neg
                   /\ p.w[5] = p.w[2] /\ p.w[6] = p.w[2]
    /\ p.n < 2 => p.c \in {T_2, T_123}
                   /\ p.w[3] = p.w[2] /\ p.w[4] = p.w[2]

RuleParts == {p \in PartsWs \cup PartsNum : Canonical(p)}

TextOf(p) ==
    p.w[1] \o p.s.d \o p.w[2]
    \o (IF p.n >= 2 THEN <<",">> \o p.w[3] \o p.c.d \o p.w[4] ELSE <<>>)
    \o (IF p.n >= 3
        THEN <<",">> \o p.w[5] \o (IF p.neg THEN <<"!">> ELSE <<>>)
             \o p.a.d \o p.w[6]
        ELSE <<>>)
    \o p.tail

(***************************************************************************)
(* The parse as a state machine: one rule text, parsed once.               *)
(***************************************************************************)
NoCipData == [service |-> 0, cipdir |-> [dir |-> "None"]]
NoCall == [family |-> "none"]

\* the transaction variables of a behaviour that evaluates no transaction
NoTx == [request |-> None, response |-> None]
NoTxCall == [fn |-> "none"]
NoTxRet == [panic |-> FALSE, out |-> None, ret |-> 0]
NoPrev == [call |-> NoTxCall, ret |-> NoTxRet]

NoTransaction ==
    /\ tx = NoTx
    /\ tx_call = NoTxCall
    /\ tx_ret = NoTxRet
    /\ tx_prev = NoPrev

\* the rule variables of a behaviour that loads no rule
NoSig == [pc |-> "none"]
NoSetupCall == [fn |-> "none"]

NoRules ==
    /\ sig = NoSig
    /\ heap = <<>>
    /\ setup_call = NoSetupCall

\* the thread variables of a behaviour with a single caller
NoShared == [kw |-> "none"]

NoThreads ==
    /\ shared = NoShared
    /\ threads = <<>>

InitParse ==
    /\ rule_parts \in RuleParts
    /\ rule_text = TextOf(rule_parts)
    /\ parse_pc = "ready"
    /\ parse_ret = NomErr
    /\ m_d = NoCipData
    /\ m_call = NoCall
    /\ m_ret = 0
    /\ m_trace = <<>>
    /\ NoTransaction
    /\ NoRules
    /\ NoThreads

\* parse_cip_service calls enip_parse_cip_service on the rule text
ParseRule ==
    /\ parse_pc = "ready"
    /\ parse_ret' = enip_parse_cip_service(rule_text)
    /\ parse_pc' = "done"
    /\ UNCHANGED <<rule_parts, rule_text>>
    /\ UNCHANGED match_vars
    /\ UNCHANGED tx_vars
    /\ UNCHANGED rules_vars
    /\ UNCHANGED thread_vars

NextParse == ParseRule

SpecParse == InitParse /\ [][NextParse]_vars


(***************************************************************************)
(* CipData values under evaluation.                                        *)
(***************************************************************************)
SeqUpTo(n, S) == UNION {[1..k -> S] : k \in 0..n}

V5 == <<0, 5>>
V6 == <<0, 6>>
V7 == <<0, 7>>
\* 65541: equal to 5 in its low 16 bits
W5 == <<1, 5>>

\* class 6, class 7 (low bits set), instance 6, attribute 5, attribute 65541
\* (low bits set), and a segment of another kind
Segments ==
    { Segment(32, V6), Segment(33, V7), Segment(36, V6), Segment(48, V5),
      Segment(51, W5), Segment(145, V5) }

Paths == SeqUpTo(MaxPath, Segments)

RequestLeafPayloads ==
    { OtherPayload, GetAttributeList(<<5>>), GetAttributeList(<<9, 5>>),
      SetAttributeList(Some(5)), SetAttributeList(None) }

LeafServices == {14, CIP_MULTIPLE_SERVICE}

RequestLeaves ==
    { CipData(sv, CipDirRequest(path, pl)) :
        sv \in LeafServices, path \in Paths, pl \in RequestLeafPayloads }

ExtBytes == {0, 1, 255}

ResponseLeaves ==
    { CipData(sv, CipDirResponse(st, ext, OtherPayload)) :
        sv \in LeafServices, st \in {0, 5},
        ext \in SeqUpTo(MaxExt, ExtBytes) }

NoneLeaves == { CipData(sv, CipDirNone) : sv \in LeafServices }

\* the entries of the envelopes of one level
EntryLeaves ==
    { CipData(14, CipDirRequest(<<Segment(32, V6), Segment(48, V5)>>,
                                OtherPayload)),
      CipData(3, CipDirRequest(<<Segment(32, V6)>>, GetAttributeList(<<5>>))),
      CipData(CIP_MULTIPLE_SERVICE,
              CipDirRequest(<<Segment(32, V6)>>, OtherPayload)),
      CipData(14, CipDirResponse(0, <<>>, OtherPayload)),
      CipData(14, CipDirResponse(5, <<1, 0>>, OtherPayload)),
      CipData(14, CipDirResponse(5, <<1, 0, 0>>, OtherPayload)),
      CipData(14, CipDirNone) }

\* an envelope head is a CipData whose payload is still to be filled in
RequestHeads ==
    { [service |-> sv, path |-> path] :
        sv \in {CIP_MULTIPLE_SERVICE, 14},
        path \in {<<>>, <<Segment(32, V6)>>} }
ResponseHeads ==
    { [service |-> sv, status |-> x[1], status_extended |-> x[2]] :
        sv \in {CIP_MULTIPLE_SERVICE, 14},
        x \in {<<0, <<>> >>, <<5, <<0, 1>> >>} }

RequestEnvelope(h, list) ==
    CipData(h.service, CipDirRequest(h.path, Multiple(list)))
ResponseEnvelope(h, list) ==
    CipData(h.service,
            CipDirResponse(h.status, h.status_extended, Multiple(list)))

\* envelopes of one level: any head, any entries, directions mixed
Envelopes1 ==
    { RequestEnvelope(h, l) :
        h \in RequestHeads, l \in SeqUpTo(MaxList, EntryLeaves) }
    \cup
    { ResponseEnvelope(h, l) :
        h \in ResponseHeads, l \in SeqUpTo(MaxList, EntryLeaves) }

NestedRequestLeaves ==
    { CipData(14, CipDirRequest(<<Segment(32, V6), Segment(48, V5)>>,
                                OtherPayload)),
      CipData(3, CipDirRequest(<<>>, OtherPayload)) }
NestedRequestHead == [service |-> CIP_MULTIPLE_SERVICE, path |-> <<>>]

NestedResponseLeaves ==
    { CipData(14, CipDirResponse(5, <<1, 0>>, OtherPayload)),
      CipData(3, CipDirResponse(0, <<>>, OtherPayload)) }
NestedResponseHead ==
    [service |-> CIP_MULTIPLE_SERVICE, status |-> 0, status_extended |-> <<>>]

\* envelopes of two levels: a Multiple-Service envelope whose entries are
\* leaves and further Multiple-Service envelopes of leaves
Envelopes2 ==
    { RequestEnvelope(NestedRequestHead, l) :
        l \in SeqUpTo(MaxList,
                 NestedRequestLeaves \cup
                 { RequestEnvelope(NestedRequestHead, i) :
                     i \in SeqUpTo(MaxList, NestedRequestLeaves) }) }
    \cup
    { ResponseEnvelope(NestedResponseHead, l) :
        l \in SeqUpTo(MaxList,
                 NestedResponseLeaves \cup
                 { ResponseEnvelope(NestedResponseHead, i) :
                     i \in SeqUpTo(MaxList, NestedResponseLeaves) }) }

CipDatas ==
    RequestLeaves \cup ResponseLeaves \cup NoneLeaves
    \cup Envelopes1 \cup Envelopes2

(***************************************************************************)
(* Predicates under evaluation.  A DetectCipServiceData is one the parser  *)
(* can return: an attribute only together with a class.                    *)
(***************************************************************************)
ServiceCtxs ==
    { DetectCipServiceData(sv, None, None) : sv \in {14, CIP_MULTIPLE_SERVICE} }
    \cup
    { DetectCipServiceData(sv, Some(c), a) :
        sv \in {14, CIP_MULTIPLE_SERVICE}, c \in {V6, V7},
        a \in {None, Some(V5), Some(W5)} }

StatusCtxs ==
    { DetectUintData("Equal", 0), DetectUintData("Equal", 5),
      DetectUintData("Gt", 0) }

ExtendedStatusCtxs ==
    { DetectUintData("Equal", 1), DetectUintData("Equal", 256),
      DetectUintData("Equal", 65281), DetectUintData("Lt", 256),
      DetectUintData("Ne", 1) }

U32Ctxs ==
    { DetectUintData("Equal", V6), DetectUintData("Equal", V5),
      DetectUintData("Gt", V5), DetectUintData("Lt", V6) }

(***************************************************************************)
(* The evaluation as a state machine: one CipData, one match call.         *)
(***************************************************************************)
Call(family, ctx, segment_type) ==
    [family |-> family, ctx |-> ctx, segment_type |-> segment_type]

InitMatch ==
    /\ m_d \in CipDatas
    /\ m_call = NoCall
    /\ m_ret = 0
    /\ m_trace = <<>>
    /\ rule_parts = [n |-> 0]
    /\ rule_text = <<>>
    /\ parse_pc = "idle"
    /\ parse_ret = NomErr
    /\ NoTransaction
    /\ NoRules
    /\ NoThreads

Returned(r) ==
    /\ m_ret' = r.ret
    /\ m_trace' = r.trace
    /\ UNCHANGED m_d
    /\ UNCHANGED parse_vars
    /\ UNCHANGED tx_vars
    /\ UNCHANGED rules_vars
    /\ UNCHANGED thread_vars

\* enip_tx_has_cip_service calls enip_cip_match_service on the CipData
MatchService ==
    /\ m_call = NoCall
    /\ \E ctx \in ServiceCtxs :
          /\ m_call' = Call("service", ctx, 0)
          /\ Returned(enip_cip_match_service(m_d, ctx, <<>>))

\* enip_tx_has_cip_status calls enip_cip_match_status on the CipData
MatchStatus ==
    /\ m_call = NoCall
    /\ \E ctx \in StatusCtxs :
          /\ m_call' = Call("status", ctx, 0)
          /\ Returned(enip_cip_match_status(m_d, ctx, <<>>))

\* enip_tx_has_cip_extendedstatus calls enip_cip_match_extendedstatus
MatchExtendedStatus ==
    /\ m_call = NoCall
    /\ \E ctx \in ExtendedStatusCtxs :
          /\ m_call' = Call("extendedstatus", ctx, 0)
          /\ Returned(enip_cip_match_extendedstatus(m_d, ctx, <<>>))

\* enip_tx_has_cip_segment calls enip_cip_match_segment with classifier 8
\* (cip_class_match) or 9 (cip_instance_match)
MatchSegment ==
    /\ m_call = NoCall
    /\ \E ctx \in U32Ctxs, segment_type \in {8, 9} :
          /\ m_call' = Call("segment", ctx, segment_type)
          /\ Returned(enip_cip_match_segment(m_d, ctx, segment_type, <<>>))

\* enip_tx_has_cip_attribute calls enip_cip_match_attribute on the CipData
MatchAttribute ==
    /\ m_call = NoCall
    /\ \E ctx \in U32Ctxs :
          /\ m_call' = Call("attribute", ctx, 0)
          /\ Returned(enip_cip_match_attribute(m_d, ctx, <<>>))

NextMatch ==
    \/ MatchService
    \/ MatchStatus
    \/ MatchExtendedStatus
    \/ MatchSegment
    \/ MatchAttribute

SpecMatch == InitMatch /\ [][NextMatch]_vars

(***************************************************************************)
(* Claims about the rule grammar (specification SpecParse).                *)
(***************************************************************************)
\* what the token table says of a number token
ServiceValid(t) == t.v # None /\ t.v[1][1] = 0 /\ t.v[1][2] < 128
U32Valid(t) == t.v # None
FieldsValid(p) ==
    /\ ServiceValid(p.s)
    /\ p.n >= 2 => U32Valid(p.c)
    /\ p.n >= 3 => U32Valid(p.a)
LastWs(p) == p.w[2 * p.n]

\* C1: a well-formed text 's', 's,c' or 's,c,a', with any blanks around the
\* numbers and commas, parses with an empty remainder to exactly
\* service = s, class = Some(c) iff c is written, attribute = Some(a) iff a
\* is written.
Thm_C1_WellFormedParses ==
    (/\ parse_pc = "done"
     /\ FieldsValid(rule_parts)
     /\ ~rule_parts.neg
     /\ rule_parts.tail = <<>>)
    => parse_ret =
         NomOk(<<>>,
               DetectCipServiceData(
                   rule_parts.s.v[1][2],
                   IF rule_parts.n >= 2 THEN Some(rule_parts.c.v[1]) ELSE None,
                   IF rule_parts.n >= 3 THEN Some(rule_parts.a.v[1]) ELSE None))

\* C1 witness: "12 , 123 , 45678" has been parsed to 12, Some(123), Some(45678)
Wit_C1_SpacedTriple ==
    /\ parse_pc = "done"
    /\ rule_text = <<"1", "2", SP, ",", SP, "1", "2", "3", SP, ",", SP,
                     "4", "5", "6", "7", "8">>
    /\ parse_ret.ok
    /\ parse_ret.out = DetectCipServiceData(12, Some(<<0, 123>>), Some(<<0, 45678>>))

\* the tail of the text is not taken for (part of) a number field
TailIsSeparate(p) ==
    p.tail = <<>> \/ Head(p.tail) \notin (DigitChars \cup {"!"})

InvalidField(p) ==
    \/ ~ServiceValid(p.s)
    \/ p.n >= 2 /\ ~U32Valid(p.c)
    \/ p.n >= 3 /\ ~U32Valid(p.a)

\* C2: a text with an invalid numeric field is an error and yields no
\* predicate: a service that is no digit string, does not fit 8 bits or is
\* >= 0x80; after the first comma anything but a digit string fitting 32
\* bits; after the second comma anything but an optional '!' and a digit
\* string fitting 32 bits.
Thm_C2_InvalidFieldIsError ==
    (/\ parse_pc = "done"
     /\ InvalidField(rule_parts)
     /\ TailIsSeparate(rule_parts))
    => parse_ret = NomErr

\* C2 witness: "s,c,!4294967296" (a negated attribute that overflows 32
\* bits, after a valid service and class) has been refused
Wit_C2_NegatedOverflow ==
    /\ parse_pc = "done"
    /\ rule_parts.n = 3 /\ rule_parts.neg /\ rule_parts.a = T_U32Over
    /\ ServiceValid(rule_parts.s) /\ U32Valid(rule_parts.c)
    /\ rule_parts.tail = <<>>
    /\ parse_ret = NomErr

\* something other than blanks is left once the written fields are consumed
TrailingJunk(p) ==
    /\ p.tail # <<>>
    /\ Head(p.tail) \notin Blanks
    /\ Head(p.tail) \in DigitChars => LastWs(p) # <<>>
    /\ Head(p.tail) = "," => p.n = 3

\* C3: a text with anything but blanks left after the service and the
\* optional class and attribute is an error.
Thm_C3_TrailingIsError ==
    (/\ parse_pc = "done"
     /\ FieldsValid(rule_parts)
     /\ TrailingJunk(rule_parts))
    => parse_ret = NomErr

\* C3 witness: "1,2,3,4" has been refused
Wit_C3_FourthValue ==
    /\ parse_pc = "done"
    /\ rule_text = <<"1", ",", "2", ",", "3", ",", "4">>
    /\ parse_ret = NomErr

\* C4: 's,c,!a' parses, and to the predicate 's,c' parses to: service = s,
\* class = Some(c), attribute = None.
Thm_C4_NegatedAttributeDropped ==
    (/\ parse_pc = "done"
     /\ rule_parts.n = 3 /\ rule_parts.neg
     /\ FieldsValid(rule_parts)
     /\ rule_parts.tail = <<>>)
    => /\ parse_ret =
            NomOk(<<>>, DetectCipServiceData(rule_parts.s.v[1][2],
                                             Some(rule_parts.c.v[1]), None))
       /\ parse_ret =
            enip_parse_cip_service(TextOf([rule_parts EXCEPT !.n = 2]))

\* C4 witness: "1,2,!3" has been parsed to 1, Some(2), None
Wit_C4_NegatedParsed ==
    /\ parse_pc = "done"
    /\ rule_text = <<"1", ",", "2", ",", "!", "3">>
    /\ parse_ret.ok
    /\ parse_ret.out = DetectCipServiceData(1, Some(<<0, 2>>), None)


(***************************************************************************)
(* Claims about the match functions (specification SpecMatch).             *)
(***************************************************************************)
IsCall(family) == m_call.family = family

\* the function of the call c, evaluated on the CipData d alone
EvalAlone(c, d) ==
    CASE c.family = "service" -> enip_cip_match_service(d, c.ctx, <<>>).ret
      [] c.family = "status" -> enip_cip_match_status(d, c.ctx, <<>>).ret
      [] c.family = "extendedstatus" ->
            enip_cip_match_extendedstatus(d, c.ctx, <<>>).ret
      [] c.family = "segment" ->
            enip_cip_match_segment(d, c.ctx, c.segment_type, <<>>).ret
      [] c.family = "attribute" ->
            enip_cip_match_attribute(d, c.ctx, <<>>).ret

SomeEntryMatches(c, d) ==
    \E k \in 1..Len(PacketList(d)) : EvalAlone(c, PacketList(d)[k]) = 1

\* a path segment of the given kind (segment_type >> 2) and value
HasSegment(d, kind, v) ==
    \E k \in 1..Len(d.cipdir.path) :
        /\ d.cipdir.path[k].segment_type \div 4 = kind
        /\ d.cipdir.path[k].value = v

\* the 32-bit value v is the 16-bit id x
SameNumber(v, x) == v[1] = 0 /\ v[2] = x

\* the direct check of the service family, as the claims word it
DirectHolds(d, ctx) ==
    /\ d.service = ctx.service
    /\ ctx.class # None =>
          /\ d.cipdir.dir = "Request"
          /\ HasSegment(d, 8, ctx.class[1])
    /\ (ctx.class # None /\ ctx.attribute # None) =>
          \/ HasSegment(d, 12, ctx.attribute[1])
          \/ /\ d.cipdir.payload.kind = "GetAttributeList"
             /\ \E k \in 1..Len(d.cipdir.payload.attr_list) :
                   SameNumber(ctx.attribute[1], d.cipdir.payload.attr_list[k])
          \/ /\ d.cipdir.payload.kind = "SetAttributeList"
             /\ d.cipdir.payload.first_attr # None
             /\ SameNumber(ctx.attribute[1], d.cipdir.payload.first_attr[1])

IsEnvelope(d) ==
    /\ d.service = CIP_MULTIPLE_SERVICE
    /\ d.cipdir.dir \in {"Request", "Response"}
    /\ d.cipdir.payload.kind = "Multiple"

\* C5: on a request CipData that is not a Multiple-Service envelope,
\* enip_cip_match_service returns 1 exactly when the service is the
\* predicate's, a class segment (segment_type >> 2 = 8) holds the predicate's
\* class if it has one, and, with a class and an attribute, the attribute is
\* in an attribute segment (>> 2 = 12), in GetAttributeList.attr_list or is
\* SetAttributeList.first_attr; with no class, the service alone decides.
Thm_C5_ServiceDirectCheck ==
    (/\ IsCall("service")
     /\ m_d.cipdir.dir = "Request"
     /\ ~IsEnvelope(m_d))
    => /\ m_ret \in {0, 1}
       /\ m_ret = 1 <=> DirectHolds(m_d, m_call.ctx)

\* C5 witness: a request matched on service, class and an attribute found
\* only in GetAttributeList.attr_list
Wit_C5_AttributeFromList ==
    /\ IsCall("service")
    /\ m_d.cipdir.dir = "Request"
    /\ ~IsEnvelope(m_d)
    /\ m_call.ctx.class # None /\ m_call.ctx.attribute # None
    /\ ~HasSegment(m_d, 12, m_call.ctx.attribute[1])
    /\ m_d.cipdir.payload.kind = "GetAttributeList"
    /\ m_ret = 1

\* C6: whenever the direct check fails (service differs, or the class or
\* attribute constraint is not met) and the service is CIP_MULTIPLE_SERVICE,
\* enip_cip_match_service recurses into the packet_list and the result is 1
\* iff some entry matches.
Orig_C6_RecurseWhenDirectFails ==
    (/\ IsCall("service")
     /\ ~DirectHolds(m_d, m_call.ctx)
     /\ m_d.service = CIP_MULTIPLE_SERVICE)
    => (m_ret = 1 <=> SomeEntryMatches(m_call, m_d))

\* What lines 160-171 do instead: the recursion is the else-branch of the
\* service comparison, so it runs only when the service differs from the
\* predicate's and is CIP_MULTIPLE_SERVICE (1 iff some entry matches, every
\* entry evaluated when none does).  When the service is the predicate's,
\* the direct check alone decides and no entry is evaluated.
Thm_C6_RecurseWhenServiceDiffers ==
    IsCall("service") =>
       /\ (/\ m_d.service # m_call.ctx.service
           /\ m_d.service = CIP_MULTIPLE_SERVICE)
          => /\ m_ret = 1 <=> SomeEntryMatches(m_call, m_d)
             /\ m_ret = 0 =>
                   \A k \in 1..Len(PacketList(m_d)) :
                      \E j \in 1..Len(m_trace) : m_trace[j] = <<k>>
       /\ m_d.service = m_call.ctx.service
          => /\ m_ret = 1 <=> DirectHolds(m_d, m_call.ctx)
             /\ m_trace = << <<>> >>

\* an envelope of another service than the predicate's, whose first entry
\* does not match and a later one does
Wit_C6_LaterEntryMatches ==
    /\ IsCall("service")
    /\ m_d.service = CIP_MULTIPLE_SERVICE
    /\ m_d.service # m_call.ctx.service
    /\ Len(PacketList(m_d)) >= 2
    /\ EvalAlone(m_call, PacketList(m_d)[1]) = 0
    /\ m_ret = 1

FamilyDir(family) ==
    IF family \in {"status", "extendedstatus"} THEN "Response" ELSE "Request"

RecursiveFamilies == {"status", "extendedstatus", "segment", "attribute"}

\* C7 as claimed: in the status, extended-status, segment and attribute
\* families, a predicate that matches entry k alone matches any
\* Multiple-Service envelope holding it.
Orig_C7_EntryMatchLifts ==
    (/\ m_call.family \in RecursiveFamilies
     /\ IsEnvelope(m_d)
     /\ SomeEntryMatches(m_call, m_d))
    => m_ret = 1

\* C7 as amended: ... matches any Multiple-Service envelope holding it,
\* provided the envelope has the direction the family reads: a Response for
\* status and extended status, a Request for segment and attribute.
Thm_C7_EntryMatchLiftsSameDir ==
    (/\ m_call.family \in RecursiveFamilies
     /\ IsEnvelope(m_d)
     /\ m_d.cipdir.dir = FamilyDir(m_call.family)
     /\ SomeEntryMatches(m_call, m_d))
    => m_ret = 1

\* C7 witness: a status match found two levels down, in a second entry,
\* after a first entry that does not match
Wit_C7_NestedSecondEntry ==
    /\ IsCall("status")
    /\ IsEnvelope(m_d)
    /\ m_d.cipdir.dir = "Response"
    /\ Len(PacketList(m_d)) >= 2
    /\ EvalAlone(m_call, PacketList(m_d)[1]) = 0
    /\ IsEnvelope(PacketList(m_d)[2])
    /\ PacketList(m_d)[2].cipdir.dir = "Response"
    /\ ~detect_match_uint(m_call.ctx, PacketList(m_d)[2].cipdir.status)
    /\ EvalAlone(m_call, PacketList(m_d)[2]) = 1
    /\ m_ret = 1

RECURSIVE NodeAt(_, _)
\* the CipData at position p under d
NodeAt(d, p) ==
    IF p = <<>> THEN d ELSE NodeAt(PacketList(d)[Head(p)], Tail(p))

\* q is an entry after p in the packet_list p is in, or lies inside one
LaterEntry(p, q) ==
    /\ p # <<>>
    /\ Len(q) >= Len(p)
    /\ SubSeq(q, 1, Len(p) - 1) = SubSeq(p, 1, Len(p) - 1)
    /\ q[Len(p)] > p[Len(p)]

\* C8: the entries of a packet_list are evaluated in list order, none is
\* skipped, and once an entry has matched no later entry, and nothing
\* nested in one, is evaluated.
Thm_C8_ListOrderShortCircuit ==
    m_call # NoCall =>
       /\ \A i, j \in 1..Len(m_trace) :
             LaterEntry(m_trace[i], m_trace[j])
             => /\ i < j
                /\ EvalAlone(m_call, NodeAt(m_d, m_trace[i])) = 0
       /\ \A i \in 1..Len(m_trace) :
             LET p == m_trace[i]
             IN  (p # <<>> /\ p[Len(p)] > 1)
                 => \E j \in 1..(i - 1) :
                       m_trace[j] = [p EXCEPT ![Len(p)] = @ - 1]

\* C8 witness: the first of two entries that both match has been evaluated
\* and the second has not
Wit_C8_SecondMatchSkipped ==
    /\ m_call # NoCall
    /\ m_ret = 1
    /\ Len(PacketList(m_d)) >= 2
    /\ EvalAlone(m_call, PacketList(m_d)[1]) = 1
    /\ EvalAlone(m_call, PacketList(m_d)[2]) = 1
    /\ \E j \in 1..Len(m_trace) : m_trace[j] = <<1>>
    /\ \A j \in 1..Len(m_trace) : m_trace[j] # <<2>>

\* C9: a two-byte status_extended [lo, hi] is tested as hi * 256 + lo: the
\* call returns 1 when the predicate accepts that number, and 0 when it
\* does not and there is no packet_list to turn to.
Thm_C9_ExtendedStatusLittleEndian ==
    (/\ IsCall("extendedstatus")
     /\ m_d.cipdir.dir = "Response"
     /\ Len(m_d.cipdir.status_extended) = 2)
    => LET lo == m_d.cipdir.status_extended[1]
           hi == m_d.cipdir.status_extended[2]
           accepted == detect_match_uint(m_call.ctx, hi * 256 + lo)
       IN  /\ accepted => m_ret = 1
           /\ (~accepted /\ m_d.cipdir.payload.kind # "Multiple") => m_ret = 0

\* C9 witness: [1, 255] has matched the predicate "= 65281"
Wit_C9_HighByteCounts ==
    /\ IsCall("extendedstatus")
    /\ m_d.cipdir.dir = "Response"
    /\ m_d.cipdir.status_extended = <<1, 255>>
    /\ m_call.ctx = DetectUintData("Equal", 65281)
    /\ m_ret = 1

\* C10 as claimed: a response whose status_extended is not two bytes long
\* never matches: the call returns 0 for every predicate.
Orig_C10_WrongLengthNeverMatches ==
    (/\ IsCall("extendedstatus")
     /\ m_d.cipdir.dir = "Response"
     /\ Len(m_d.cipdir.status_extended) # 2)
    => m_ret = 0

\* C10 as amended: a response whose status_extended is not two bytes long
\* never matches by its own extended status: the call returns 1 iff its
\* payload is Multiple and some packet_list entry matches.
Thm_C10_WrongLengthOnlyEntries ==
    (/\ IsCall("extendedstatus")
     /\ m_d.cipdir.dir = "Response"
     /\ Len(m_d.cipdir.status_extended) # 2)
    => (m_ret = 1 <=> SomeEntryMatches(m_call, m_d))

\* C10 witness: a three-byte status_extended whose first two bytes the
\* predicate would accept has not matched
Wit_C10_ThreeBytesRefused ==
    /\ IsCall("extendedstatus")
    /\ m_d.cipdir.dir = "Response"
    /\ Len(m_d.cipdir.status_extended) = 3
    /\ detect_match_uint(m_call.ctx,
           m_d.cipdir.status_extended[2] * 256 + m_d.cipdir.status_extended[1])
    /\ m_d.cipdir.payload.kind # "Multiple"
    /\ m_ret = 0

\* a CipData that wraps no packet_list: its payload is not Multiple
IsLeaf(d) ==
    d.cipdir.dir \in {"Request", "Response"} => d.cipdir.payload.kind # "Multiple"

SegmentAccepted(d, kind, ctx) ==
    \E k \in 1..Len(d.cipdir.path) :
        /\ d.cipdir.path[k].segment_type \div 4 = kind
        /\ detect_match_uint_u32(ctx, d.cipdir.path[k].value)

\* d with the two low bits of every segment_type set to `low`
WithLowBits(d, low) ==
    [d EXCEPT !.cipdir.path =
        [k \in 1..Len(d.cipdir.path) |->
            [d.cipdir.path[k] EXCEPT
                !.segment_type = (d.cipdir.path[k].segment_type \div 4) * 4 + low]]]

Thm_C13_AttributeSources ==
    (/\ IsCall("attribute")
     /\ m_d.cipdir.dir = "Request")
    => LET pl == m_d.cipdir.payload
       IN  m_ret = 1 <=>
             \/ SegmentAccepted(m_d, 12, m_call.ctx)
             \/ /\ pl.kind = "GetAttributeList"
                /\ \E k \in 1..Len(pl.attr_list) :
                      detect_match_uint_u32(m_call.ctx, <<0, pl.attr_list[k]>>)
             \/ /\ pl.kind = "SetAttributeList"
                /\ pl.first_attr # None
                /\ detect_match_uint_u32(m_call.ctx, <<0, pl.first_attr[1]>>)
             \/ /\ pl.kind = "Multiple"
                /\ SomeEntryMatches(m_call, m_d)

\* C13 witness: a SetAttributeList with no first_attr, and no class segment
\* in the path, has not matched a predicate that the value 0 satisfies
Wit_C13_AbsentFirstAttr ==
    /\ IsCall("attribute")
    /\ m_d.cipdir.dir = "Request"
    /\ m_d.cipdir.payload = SetAttributeList(None)
    /\ detect_match_uint_u32(m_call.ctx, <<0, 0>>)
    /\ m_ret = 0


(***************************************************************************)
(* The decoded transaction (super::enip, super::parser), as detect.rs      *)
(* reads it: an EnipTransaction holds an optional request and an optional  *)
(* response PDU; a PDU a header and a payload; the Cip, ListServices and   *)
(* ListIdentity payloads a list of items.                                  *)
(***************************************************************************)
EnipTransaction(request, response) ==
    [request |-> request, response |-> response]

EnipHeader(cmd, status) == [cmd |-> cmd, status |-> status]
EnipPdu(header, payload) == [header |-> header, payload |-> payload]

\* EnipPayload
PayloadCip(items) == [kind |-> "Cip", items |-> items]
PayloadRegisterSession(protocol_version) ==
    [kind |-> "RegisterSession", protocol_version |-> protocol_version]
PayloadListServices(items) == [kind |-> "ListServices", items |-> items]
PayloadListIdentity(items) == [kind |-> "ListIdentity", items |-> items]
PayloadUnused == [kind |-> "Unused"]

\* an item of a list, and its EnipItemPayload
EnipItem(payload) == [payload |-> payload]
ItemData(cip) == [kind |-> "Data", cip |-> cip]
ItemServices(protocol_version, capabilities, service_name) ==
    [kind |-> "Services", protocol_version |-> protocol_version,
     capabilities |-> capabilities, service_name |-> service_name]
ItemIdentity(f) == [kind |-> "Identity"] @@ f
ItemUnused == [kind |-> "Unused"]

ToServer == "ToServer"
ToClient == "ToClient"
Directions == {ToServer, ToClient}

(***************************************************************************)
(* What a function hands back: `out` is its Option value (None, Some(v)),  *)
(* panic says that it indexed a list out of its bounds instead.            *)
(***************************************************************************)
Got(out) == [panic |-> FALSE, out |-> out]
Panicked == [panic |-> TRUE, out |-> None]

\* a variant of is_empty that never sees a list as empty
is_empty_Never(list) == FALSE

\* lsp.is_empty(), lip.is_empty()
is_empty(list) == Len(list) = 0

\* &list[0].payload.  Rust counts the items from 0, the model from 1.
Item0Payload(list) ==
    IF Len(list) >= 1 THEN Got(Some(list[1].payload)) ELSE Panicked

(***************************************************************************)
(* The transaction-level CIP entry points.                                 *)
(***************************************************************************)
\* a variant that looks at the first item only
first_data_item_HeadOnly(items, k) ==
    IF k <= Len(items) /\ items[k].payload.kind = "Data" THEN k ELSE 0

RECURSIVE first_data_item(_, _)
\* for item in c.items.iter() { if let EnipItemPayload::Data(d) =
\* &item.payload { return ...; } }: the place of the item the loop returns
\* on, searching from place k; 0 when the loop runs to its end
first_data_item(items, k) ==
    IF k > Len(items) THEN 0
    ELSE IF items[k].payload.kind = "Data" THEN k
    ELSE first_data_item(items, k + 1)

\* the CipData the entry point evaluates in the PDU pduo: Some(&d.cip) of
\* the first Data item of a Cip payload, None when it returns 0 without a
\* CipData-level call
tx_cip_data(pduo) ==
    IF pduo # None
    THEN LET pdu == pduo[1]
         IN  IF pdu.payload.kind = "Cip"
             THEN LET k == first_data_item(pdu.payload.items, 1)
                  IN  IF k # 0 THEN Some(pdu.payload.items[k].payload.cip)
                      ELSE None
             ELSE None
    ELSE None

\* a variant that reads the request whatever the direction
service_pduo_AlwaysRequest(t, direction) == t.request

\* let pduo = if direction == Direction::ToServer { &tx.request } else
\* { &tx.response }
service_pduo(t, direction) ==
    IF direction = ToServer THEN t.request ELSE t.response

enip_tx_has_cip_service(t, direction, ctx) ==
    LET d == tx_cip_data(service_pduo(t, direction))
    IN  IF d # None THEN enip_cip_match_service(d[1], ctx, <<>>).ret ELSE 0

\* a variant that falls back on the request when there is no response
enip_tx_has_cip_status_RequestFallback(t, ctx) ==
    LET d == tx_cip_data(IF t.response # None THEN t.response ELSE t.request)
    IN  IF d # None THEN enip_cip_match_status(d[1], ctx, <<>>).ret ELSE 0

enip_tx_has_cip_status(t, ctx) ==
    LET d == tx_cip_data(t.response)
    IN  IF d # None THEN enip_cip_match_status(d[1], ctx, <<>>).ret ELSE 0

enip_tx_has_cip_extendedstatus(t, ctx) ==
    LET d == tx_cip_data(t.response)
    IN  IF d # None THEN enip_cip_match_extendedstatus(d[1], ctx, <<>>).ret
        ELSE 0

enip_tx_has_cip_segment(t, ctx, segment_type) ==
    LET d == tx_cip_data(t.request)
    IN  IF d # None
        THEN enip_cip_match_segment(d[1], ctx, segment_type, <<>>).ret
        ELSE 0

enip_tx_has_cip_attribute(t, ctx) ==
    LET d == tx_cip_data(t.request)
    IN  IF d # None THEN enip_cip_match_attribute(d[1], ctx, <<>>).ret ELSE 0

(***************************************************************************)
(* Field extraction.                                                       *)
(***************************************************************************)
\* a variant that reads the response first and the request in its absence
direction_pduo_ResponseFirst(t, direction) ==
    IF t.response # None THEN t.response ELSE t.request

\* if direction == Direction::ToServer { if let Some(req) = &tx.request ... }
\* else if let Some(resp) = &tx.response ...
direction_pduo(t, direction) ==
    IF direction = ToServer THEN t.request ELSE t.response

enip_get_status(t, direction) ==
    LET pduo == direction_pduo(t, direction)
    IN  IF pduo # None THEN Got(Some(pduo[1].header.status)) ELSE Got(None)

tx_get_command(t, direction) ==
    LET pduo == direction_pduo(t, direction)
    IN  IF pduo # None THEN Got(Some(pduo[1].header.cmd)) ELSE Got(None)

\* a variant that reads the first item of the wanted kind, wherever it is
list_item0_FirstOfKind(t, list, item) ==
    IF t.response # None /\ t.response[1].payload.kind = list
    THEN LET l == t.response[1].payload.items
             found == {k \in 1..Len(l) : l[k].payload.kind = item}
         IN  IF found # {}
             THEN Got(Some(l[CHOOSE k \in found : \A j \in found : k <= j].payload))
             ELSE Got(None)
    ELSE Got(None)

\* the item a list extractor reads: if let Some(ref response) = tx.response
\* { if let EnipPayload::<list>(l) = &response.payload { if !l.is_empty()
\* { if let EnipItemPayload::<item>(x) = &l[0].payload { .. } } } }
list_item0(t, list, item) ==
    IF t.response # None /\ t.response[1].payload.kind = list
    THEN LET l == t.response[1].payload.items
         IN  IF ~is_empty(l)
             THEN LET p == Item0Payload(l)
                  IN  IF p.panic THEN Panicked
                      ELSE IF p.out[1].kind = item THEN p
                      ELSE Got(None)
             ELSE Got(None)
    ELSE Got(None)

\* the field f of the item a list extractor reads
list_item0_field(t, list, item, f) ==
    LET x == list_item0(t, list, item)
    IN  IF x.panic \/ x.out = None THEN x ELSE Got(Some(x.out[1][f]))

tx_get_capabilities(t) ==
    list_item0_field(t, "ListServices", "Services", "capabilities")
tx_get_vendor_id(t) ==
    list_item0_field(t, "ListIdentity", "Identity", "vendor_id")
tx_get_state(t) ==
    list_item0_field(t, "ListIdentity", "Identity", "state")
tx_get_serial(t) ==
    list_item0_field(t, "ListIdentity", "Identity", "serial")
tx_get_product_code(t) ==
    list_item0_field(t, "ListIdentity", "Identity", "product_code")
tx_get_identity_status(t) ==
    list_item0_field(t, "ListIdentity", "Identity", "status")
tx_get_device_type(t) ==
    list_item0_field(t, "ListIdentity", "Identity", "device_type")
\* product_name_get_data and service_name_get_data: the buffer they set
product_name_get_data(t) ==
    list_item0_field(t, "ListIdentity", "Identity", "product_name")
service_name_get_data(t) ==
    list_item0_field(t, "ListServices", "Services", "service_name")

\* a variant that joins the two bytes with the major shifted by 4
RevisionValue_Shift4(major, minor) == BitOr((major * 16) % 65536, minor)

\* ((li.revision_major as u16) << 8) | (li.revision_minor as u16)
RevisionValue(major, minor) == BitOr(ShlU16By8(major), minor)

tx_get_revision(t) ==
    LET x == list_item0(t, "ListIdentity", "Identity")
    IN  IF x.panic \/ x.out = None THEN x
        ELSE Got(Some(RevisionValue(x.out[1].revision_major,
                                    x.out[1].revision_minor)))

\* a variant that turns to the response when the request has no version
tx_get_protocol_version_EitherPdu(t, direction) ==
    IF /\ direction = ToServer
       /\ t.request # None
       /\ t.request[1].payload.kind = "RegisterSession"
    THEN Got(Some(t.request[1].payload.protocol_version))
    ELSE IF t.response # None
    THEN LET pl == t.response[1].payload
         IN  IF pl.kind = "RegisterSession"
             THEN Got(Some(pl.protocol_version))
             ELSE IF pl.kind \in {"ListServices", "ListIdentity"}
                     /\ ~is_empty(pl.items)
                     /\ pl.items[1].payload.kind
                          = (IF pl.kind = "ListServices" THEN "Services"
                             ELSE "Identity")
             THEN Got(Some(pl.items[1].payload.protocol_version))
             ELSE Got(None)
    ELSE Got(None)

tx_get_protocol_version(t, direction) ==
    IF direction = ToServer
    THEN IF /\ t.request # None
            /\ t.request[1].payload.kind = "RegisterSession"
         THEN Got(Some(t.request[1].payload.protocol_version))
         ELSE Got(None)
    ELSE IF t.response # None
    THEN LET pl == t.response[1].payload
         IN  IF pl.kind = "RegisterSession"
             THEN Got(Some(pl.protocol_version))
             ELSE IF pl.kind = "ListServices" /\ ~is_empty(pl.items)
             THEN LET p == Item0Payload(pl.items)
                  IN  IF p.panic THEN Panicked
                      ELSE IF p.out[1].kind = "Services"
                      THEN Got(Some(p.out[1].protocol_version))
                      ELSE Got(None)
             ELSE IF pl.kind = "ListIdentity" /\ ~is_empty(pl.items)
             THEN LET p == Item0Payload(pl.items)
                  IN  IF p.panic THEN Panicked
                      ELSE IF p.out[1].kind = "Identity"
                      THEN Got(Some(p.out[1].protocol_version))
                      ELSE Got(None)
             ELSE Got(None)
    ELSE Got(None)

(***************************************************************************)
(* The keyword match callbacks.  Each hands back [panic, out, ret]: ret is *)
(* the c_int (or bool) the callback returns, out the value it extracted    *)
(* (None for the CIP keywords, which extract none).                        *)
(***************************************************************************)
\* SCDetectU8Match, SCDetectU16Match (crate::detect::uint)
SCDetectU16Match(v, ctx) == IF detect_match_uint(ctx, v) THEN 1 ELSE 0
\* SCDetectU32Match
SCDetectU32Match(v, ctx) == IF detect_match_uint_u32(ctx, v) THEN 1 ELSE 0

CipRet(ret) == [panic |-> FALSE, out |-> None, ret |-> ret]

\* a variant that matches an absent field as the value 0
u16_keyword_match_AbsentIsZero(x, ctx) ==
    [panic |-> x.panic, out |-> x.out,
     ret |-> IF x.panic THEN 0
             ELSE IF x.out # None THEN SCDetectU16Match(x.out[1], ctx)
             ELSE SCDetectU16Match(0, ctx)]

\* if let Some(v) = <extraction> { return SCDetectU16Match(v, ctx); }
\* return 0;
u16_keyword_match(x, ctx) ==
    [panic |-> x.panic, out |-> x.out,
     ret |-> IF ~x.panic /\ x.out # None
             THEN SCDetectU16Match(x.out[1], ctx) ELSE 0]

\* if let Some(v) = <extraction> { return SCDetectU32Match(v, ctx); }
\* return 0;
u32_keyword_match(x, ctx) ==
    [panic |-> x.panic, out |-> x.out,
     ret |-> IF ~x.panic /\ x.out # None
             THEN SCDetectU32Match(x.out[1], ctx) ELSE 0]

\* a sticky buffer: true and the bytes, or false and a null buffer
get_data_ret(x) ==
    [panic |-> x.panic, out |-> x.out,
     ret |-> IF ~x.panic /\ x.out # None THEN 1 ELSE 0]

cipservice_match(t, direction, ctx) ==
    CipRet(enip_tx_has_cip_service(t, direction, ctx))
cip_status_match(t, ctx) == CipRet(enip_tx_has_cip_status(t, ctx))
cip_extendedstatus_match(t, ctx) ==
    CipRet(enip_tx_has_cip_extendedstatus(t, ctx))
cip_class_match(t, ctx) == CipRet(enip_tx_has_cip_segment(t, ctx, 8))
cip_instance_match(t, ctx) == CipRet(enip_tx_has_cip_segment(t, ctx, 9))
cip_attribute_match(t, ctx) == CipRet(enip_tx_has_cip_attribute(t, ctx))

status_match(t, direction, ctx) ==
    u32_keyword_match(enip_get_status(t, direction), ctx)
command_match(t, direction, ctx) ==
    u16_keyword_match(tx_get_command(t, direction), ctx)
protocol_version_match(t, direction, ctx) ==
    u16_keyword_match(tx_get_protocol_version(t, direction), ctx)
capabilities_match(t, ctx) == u16_keyword_match(tx_get_capabilities(t), ctx)
vendor_id_match(t, ctx) == u16_keyword_match(tx_get_vendor_id(t), ctx)
state_match(t, ctx) == u16_keyword_match(tx_get_state(t), ctx)
serial_match(t, ctx) == u32_keyword_match(tx_get_serial(t), ctx)
revision_match(t, ctx) == u16_keyword_match(tx_get_revision(t), ctx)
product_code_match(t, ctx) == u16_keyword_match(tx_get_product_code(t), ctx)
identity_status_match(t, ctx) ==
    u16_keyword_match(tx_get_identity_status(t), ctx)
device_type_match(t, ctx) == u16_keyword_match(tx_get_device_type(t), ctx)

(***************************************************************************)
(* Transactions under evaluation.                                          *)
(***************************************************************************)
Identity1 ==
    ItemIdentity([protocol_version |-> 1, vendor_id |-> 7, device_type |-> 12,
                  product_code |-> 65, revision_major |-> 1,
                  revision_minor |-> 5, status |-> 48, serial |-> <<1, 2>>,
                  product_name |-> <<80, 76, 67>>, state |-> 3])
\* an identity whose fields all differ from Identity1's, some of them zero
Identity2 ==
    ItemIdentity([protocol_version |-> 2, vendor_id |-> 0, device_type |-> 0,
                  product_code |-> 0, revision_major |-> 0,
                  revision_minor |-> 0, status |-> 0, serial |-> <<0, 0>>,
                  product_name |-> <<>>, state |-> 0])
Services1 == ItemServices(1, 288, <<67, 111, 109>>)
Services2 == ItemServices(3, 0, <<>>)

\* a request the request-side predicates accept, a response the
\* response-side predicates accept, and a response envelope with a
\* three-byte status_extended and an empty packet_list
CipA ==
    CipData(14, CipDirRequest(<<Segment(32, V6), Segment(48, V5)>>,
                              OtherPayload))
CipB == CipData(14, CipDirResponse(5, <<1, 0>>, OtherPayload))
CipC ==
    CipData(CIP_MULTIPLE_SERVICE,
            CipDirResponse(0, <<1, 0, 0>>, Multiple(<<>>)))

ItemsOf(S) == { EnipItem(x) : x \in S }

CipItems == ItemsOf({ItemData(CipA), ItemData(CipB), ItemData(CipC), ItemUnused})
ServicesItems == ItemsOf({Services1, Services2, Identity1, ItemUnused})
IdentityItems == ItemsOf({Identity1, Identity2, Services1, ItemUnused})

Payloads ==
    { PayloadCip(l) : l \in SeqUpTo(MaxItems, CipItems) }
    \cup { PayloadListServices(l) : l \in SeqUpTo(MaxItems, ServicesItems) }
    \cup { PayloadListIdentity(l) : l \in SeqUpTo(MaxItems, IdentityItems) }
    \cup { PayloadRegisterSession(1), PayloadRegisterSession(2),
           PayloadUnused }

Header1 == EnipHeader(101, <<0, 0>>)
Header2 == EnipHeader(111, <<1, 3>>)

Pdus ==
    { Some(EnipPdu(Header1, pl)) : pl \in Payloads }
    \cup { Some(EnipPdu(Header2, PayloadUnused)), None }

\* the PDUs one side of a transaction has while the other side takes every
\* PDU
BasicPdus ==
    { None,
      Some(EnipPdu(Header1, PayloadUnused)),
      Some(EnipPdu(Header2, PayloadUnused)),
      Some(EnipPdu(Header1, PayloadRegisterSession(1))),
      Some(EnipPdu(Header1, PayloadCip(<<EnipItem(ItemData(CipA))>>))),
      Some(EnipPdu(Header1, PayloadCip(<<EnipItem(ItemData(CipB))>>))),
      Some(EnipPdu(Header1, PayloadListServices(<<EnipItem(Services1)>>))),
      Some(EnipPdu(Header1, PayloadListIdentity(<<EnipItem(Identity1)>>))) }

RevisionBytes == {0, 1, 5, 255}

\* ListIdentity responses over the revision bytes
RevisionTxs ==
    { EnipTransaction(None,
        Some(EnipPdu(Header1, PayloadListIdentity(
            <<EnipItem([Identity1 EXCEPT !.revision_major = major,
                                         !.revision_minor = minor])>>)))) :
        major \in RevisionBytes, minor \in RevisionBytes }

Transactions ==
    { EnipTransaction(q, r) : q \in BasicPdus, r \in Pdus }
    \cup { EnipTransaction(q, r) : q \in Pdus, r \in BasicPdus }
    \cup RevisionTxs

\* predicates: one that the value 0 satisfies and one that it does not
TxServiceCtxs ==
    { DetectCipServiceData(14, None, None),
      DetectCipServiceData(14, Some(V6), Some(V5)) }
TxU8Ctxs == { DetectUintData("Equal", 0), DetectUintData("Gt", 0) }
TxU16Ctxs == { DetectUintData("Equal", 0), DetectUintData("Gt", 0) }
TxU32Ctxs == { DetectUintData("Equal", <<0, 0>>), DetectUintData("Gt", <<0, 0>>) }

\* the transactions on which a second callback run is followed
AgainPdus ==
    { None,
      Some(EnipPdu(Header1, PayloadRegisterSession(1))),
      Some(EnipPdu(Header1, PayloadCip(<<EnipItem(ItemData(CipA))>>))),
      Some(EnipPdu(Header1, PayloadCip(<<EnipItem(ItemData(CipB))>>))),
      Some(EnipPdu(Header1, PayloadListIdentity(<<EnipItem(Identity1)>>))) }

AgainTxs == { EnipTransaction(q, r) : q \in AgainPdus, r \in AgainPdus }

(***************************************************************************)
(* The evaluation as a state machine: one transaction and the keyword      *)
(* callbacks the engine runs on it, one after the other; every             *)
(* transaction sees one run, those of AgainTxs two.                        *)
(***************************************************************************)
TxCall(fn, direction, ctx) == [fn |-> fn, direction |-> direction, ctx |-> ctx]

InitTx ==
    /\ tx \in Transactions
    /\ tx_call = NoTxCall
    /\ tx_ret = NoTxRet
    /\ tx_prev = NoPrev
    /\ NoRules
    /\ NoThreads
    /\ rule_parts = [n |-> 0]
    /\ rule_text = <<>>
    /\ parse_pc = "idle"
    /\ parse_ret = NomErr
    /\ m_d = NoCipData
    /\ m_call = NoCall
    /\ m_ret = 0
    /\ m_trace = <<>>

\* a further run of a callback is followed
RunAllowed ==
    \/ tx_call = NoTxCall
    \/ tx_prev = NoPrev /\ tx \in AgainTxs

\* a variant in which the callback takes the response out of the transaction
TxReturned_TakesResponse(fn, direction, ctx, r) ==
    /\ RunAllowed
    /\ tx_call' = TxCall(fn, direction, ctx)
    /\ tx_ret' = r
    /\ tx_prev' = IF tx_call = NoTxCall THEN NoPrev
                  ELSE [call |-> tx_call, ret |-> tx_ret]
    /\ tx' = [tx EXCEPT !.response = None]
    /\ UNCHANGED parse_vars
    /\ UNCHANGED match_vars
    /\ UNCHANGED rules_vars
    /\ UNCHANGED thread_vars

\* the callback takes the transaction and the predicate by shared reference
\* and returns r; nothing else is written
TxReturned(fn, direction, ctx, r) ==
    /\ RunAllowed
    /\ tx_call' = TxCall(fn, direction, ctx)
    /\ tx_ret' = r
    /\ tx_prev' = IF tx_call = NoTxCall THEN NoPrev
                  ELSE [call |-> tx_call, ret |-> tx_ret]
    /\ UNCHANGED tx
    /\ UNCHANGED parse_vars
    /\ UNCHANGED match_vars
    /\ UNCHANGED rules_vars
    /\ UNCHANGED thread_vars

\* The engine hands every callback the direction flags; the callbacks that
\* name the parameter _flags do not read it.

CipServiceMatch ==
    \E direction \in Directions, ctx \in TxServiceCtxs :
        TxReturned("cipservice_match", direction, ctx, cipservice_match(tx, direction, ctx))

CipStatusMatch ==
    \E direction \in Directions, ctx \in TxU8Ctxs :
        TxReturned("cip_status_match", direction, ctx, cip_status_match(tx, ctx))

CipExtendedStatusMatch ==
    \E direction \in Directions, ctx \in TxU16Ctxs :
        TxReturned("cip_extendedstatus_match", direction, ctx, cip_extendedstatus_match(tx, ctx))

CipClassMatch ==
    \E direction \in Directions, ctx \in TxU32Ctxs :
        TxReturned("cip_class_match", direction, ctx, cip_class_match(tx, ctx))

CipInstanceMatch ==
    \E direction \in Directions, ctx \in TxU32Ctxs :
        TxReturned("cip_instance_match", direction, ctx, cip_instance_match(tx, ctx))

CipAttributeMatch ==
    \E direction \in Directions, ctx \in TxU32Ctxs :
        TxReturned("cip_attribute_match", direction, ctx, cip_attribute_match(tx, ctx))

StatusMatch ==
    \E direction \in Directions, ctx \in TxU32Ctxs :
        TxReturned("status_match", direction, ctx, status_match(tx, direction, ctx))

CommandMatch ==
    \E direction \in Directions, ctx \in TxU16Ctxs :
        TxReturned("command_match", direction, ctx, command_match(tx, direction, ctx))

ProtocolVersionMatch ==
    \E direction \in Directions, ctx \in TxU16Ctxs :
        TxReturned("protocol_version_match", direction, ctx, protocol_version_match(tx, direction, ctx))

CapabilitiesMatch ==
    \E direction \in Directions, ctx \in TxU16Ctxs :
        TxReturned("capabilities_match", direction, ctx, capabilities_match(tx, ctx))

VendorIdMatch ==
    \E direction \in Directions, ctx \in TxU16Ctxs :
        TxReturned("vendor_id_match", direction, ctx, vendor_id_match(tx, ctx))

StateMatch ==
    \E direction \in Directions, ctx \in TxU8Ctxs :
        TxReturned("state_match", direction, ctx, state_match(tx, ctx))

SerialMatch ==
    \E direction \in Directions, ctx \in TxU32Ctxs :
        TxReturned("serial_match", direction, ctx, serial_match(tx, ctx))

RevisionMatch ==
    \E direction \in Directions, ctx \in TxU16Ctxs :
        TxReturned("revision_match", direction, ctx, revision_match(tx, ctx))

ProductCodeMatch ==
    \E direction \in Directions, ctx \in TxU16Ctxs :
        TxReturned("product_code_match", direction, ctx, product_code_match(tx, ctx))

IdentityStatusMatch ==
    \E direction \in Directions, ctx \in TxU16Ctxs :
        TxReturned("identity_status_match", direction, ctx, identity_status_match(tx, ctx))

DeviceTypeMatch ==
    \E direction \in Directions, ctx \in TxU16Ctxs :
        TxReturned("device_type_match", direction, ctx, device_type_match(tx, ctx))

\* the sticky buffers take no predicate
NoCtx == [mode |-> "none"]

ProductNameGetData ==
    \E direction \in Directions :
        TxReturned("product_name_get_data", direction, NoCtx,
                   get_data_ret(product_name_get_data(tx)))

ServiceNameGetData ==
    \E direction \in Directions :
        TxReturned("service_name_get_data", direction, NoCtx,
                   get_data_ret(service_name_get_data(tx)))

NextTx ==
    \/ CipServiceMatch
    \/ CipStatusMatch
    \/ CipExtendedStatusMatch
    \/ CipClassMatch
    \/ CipInstanceMatch
    \/ CipAttributeMatch
    \/ StatusMatch
    \/ CommandMatch
    \/ ProtocolVersionMatch
    \/ CapabilitiesMatch
    \/ VendorIdMatch
    \/ StateMatch
    \/ SerialMatch
    \/ RevisionMatch
    \/ ProductCodeMatch
    \/ IdentityStatusMatch
    \/ DeviceTypeMatch
    \/ ProductNameGetData
    \/ ServiceNameGetData

SpecTx == InitTx /\ [][NextTx]_vars

(***************************************************************************)
(* Claims about the transaction level (specification SpecTx).              *)
(***************************************************************************)
IsTxCall(fn) == tx_call.fn = fn

CipCallbacks ==
    {"cipservice_match", "cip_status_match", "cip_extendedstatus_match",
     "cip_class_match", "cip_instance_match", "cip_attribute_match"}

\* the PDU a CIP keyword consults
ConsultedPdu(c) ==
    CASE c.fn = "cipservice_match" ->
            IF c.direction = ToServer THEN tx.request ELSE tx.response
      [] c.fn \in {"cip_status_match", "cip_extendedstatus_match"} ->
            tx.response
      [] c.fn \in {"cip_class_match", "cip_instance_match",
                   "cip_attribute_match"} -> tx.request

\* the places of the Data items of a Cip payload's list
DataPlaces(pduo) ==
    IF pduo # None /\ pduo[1].payload.kind = "Cip"
    THEN {k \in 1..Len(pduo[1].payload.items) :
             pduo[1].payload.items[k].payload.kind = "Data"}
    ELSE {}

\* the CipData-level match the keyword of the call c stands for, on d alone
CipLevel(c, d) ==
    CASE c.fn = "cipservice_match" -> enip_cip_match_service(d, c.ctx, <<>>).ret
      [] c.fn = "cip_status_match" -> enip_cip_match_status(d, c.ctx, <<>>).ret
      [] c.fn = "cip_extendedstatus_match" ->
            enip_cip_match_extendedstatus(d, c.ctx, <<>>).ret
      [] c.fn = "cip_class_match" ->
            enip_cip_match_segment(d, c.ctx, 8, <<>>).ret
      [] c.fn = "cip_instance_match" ->
            enip_cip_match_segment(d, c.ctx, 9, <<>>).ret
      [] c.fn = "cip_attribute_match" ->
            enip_cip_match_attribute(d, c.ctx, <<>>).ret

\* C14: the result of each transaction-level CIP entry point is the
\* CipData-level match on the first Data item of the consulted PDU's item
\* list (non-Data items before it skipped, every later item ignored), and 0
\* when the PDU is absent, its payload is not Cip or the list has no Data
\* item.
Thm_C14_FirstDataItemDecides ==
    tx_call.fn \in CipCallbacks =>
       LET pduo == ConsultedPdu(tx_call)
           places == DataPlaces(pduo)
       IN  IF places = {}
           THEN tx_ret.ret = 0
           ELSE LET first == CHOOSE k \in places : \A j \in places : k <= j
                IN  tx_ret.ret =
                       CipLevel(tx_call, pduo[1].payload.items[first].payload.cip)

\* C14 witness: a second Data item that matches alone, behind a first Data
\* item that does not, has been ignored
Wit_C14_LaterDataIgnored ==
    /\ IsTxCall("cip_status_match")
    /\ tx.response # None
    /\ tx.response[1].payload.kind = "Cip"
    /\ Len(tx.response[1].payload.items) = 2
    /\ \A k \in 1..2 : tx.response[1].payload.items[k].payload.kind = "Data"
    /\ CipLevel(tx_call, tx.response[1].payload.items[2].payload.cip) = 1
    /\ tx_ret.ret = 0

\* the header field a direction-selected keyword reads
HeaderField(c, pdu) ==
    IF c.fn = "command_match" THEN pdu.header.cmd ELSE pdu.header.status

\* the predicate of the call c accepts the value v of the keyword's width
Accepts(c, v) ==
    IF c.fn \in {"status_match", "serial_match"}
    THEN detect_match_uint_u32(c.ctx, v)
    ELSE detect_match_uint(c.ctx, v)

\* C15: command and status read header.cmd / header.status of the request
\* under to-server evaluation and of the response under to-client
\* evaluation; when that PDU is absent the extraction is None and the
\* keyword does not match, even if the other PDU is present.
Thm_C15_HeaderOfEvaluatedDirection ==
    tx_call.fn \in {"command_match", "status_match"} =>
       LET pduo == IF tx_call.direction = ToServer THEN tx.request
                   ELSE tx.response
       IN  IF pduo = None
           THEN tx_ret.out = None /\ tx_ret.ret = 0
           ELSE /\ tx_ret.out = Some(HeaderField(tx_call, pduo[1]))
                /\ tx_ret.ret = 1 <=> Accepts(tx_call, HeaderField(tx_call, pduo[1]))

\* C15 witness: under to-server evaluation with no request, a response
\* whose command the predicate accepts has not matched
Wit_C15_OtherPduNotRead ==
    /\ IsTxCall("command_match")
    /\ tx_call.direction = ToServer
    /\ tx.request = None
    /\ tx.response # None
    /\ Accepts(tx_call, tx.response[1].header.cmd)
    /\ tx_ret.out = None
    /\ tx_ret.ret = 0

\* the item[0] payload of a response list of the kind `list`, when it is of
\* the kind `item`
Item0Of(list, item) ==
    IF /\ tx.response # None
       /\ tx.response[1].payload.kind = list
       /\ Len(tx.response[1].payload.items) >= 1
       /\ tx.response[1].payload.items[1].payload.kind = item
    THEN Some(tx.response[1].payload.items[1].payload)
    ELSE None

\* C16: for a ListIdentity response whose item[0] is an Identity item,
\* tx_get_revision returns revision_major * 256 + revision_minor as one
\* 16-bit value; both bytes can be read back from it, so distinct pairs
\* give distinct values.
Thm_C16_RevisionMajorMinor ==
    (IsTxCall("revision_match") /\ Item0Of("ListIdentity", "Identity") # None)
    => LET li == Item0Of("ListIdentity", "Identity")[1]
       IN  /\ tx_ret.out # None
           /\ tx_ret.out[1] = li.revision_major * 256 + li.revision_minor
           /\ tx_ret.out[1] \in 0..65535
           /\ tx_ret.out[1] \div 256 = li.revision_major
           /\ tx_ret.out[1] % 256 = li.revision_minor

\* C16 witness: major 1, minor 5 has given 0x0105
Wit_C16_OneDotFive ==
    /\ IsTxCall("revision_match")
    /\ Item0Of("ListIdentity", "Identity") # None
    /\ Item0Of("ListIdentity", "Identity")[1].revision_major = 1
    /\ Item0Of("ListIdentity", "Identity")[1].revision_minor = 5
    /\ tx_ret.out = Some(261)

\* the list extractors: the list payload each reads, the kind of item it
\* wants and the field it returns
ListExtractors ==
    {"capabilities_match", "vendor_id_match", "state_match", "serial_match",
     "revision_match", "product_code_match", "identity_status_match",
     "device_type_match", "product_name_get_data", "service_name_get_data"}

ReadsServices(fn) == fn \in {"capabilities_match", "service_name_get_data"}

ListOf(fn) == IF ReadsServices(fn) THEN "ListServices" ELSE "ListIdentity"
ItemOf(fn) == IF ReadsServices(fn) THEN "Services" ELSE "Identity"

FieldOf(fn, item) ==
    CASE fn = "capabilities_match" -> item.capabilities
      [] fn = "service_name_get_data" -> item.service_name
      [] fn = "vendor_id_match" -> item.vendor_id
      [] fn = "state_match" -> item.state
      [] fn = "serial_match" -> item.serial
      [] fn = "revision_match" ->
            item.revision_major * 256 + item.revision_minor
      [] fn = "product_code_match" -> item.product_code
      [] fn = "identity_status_match" -> item.status
      [] fn = "device_type_match" -> item.device_type
      [] fn = "product_name_get_data" -> item.product_name

\* C17: each ListIdentity and ListServices field extractor returns a value
\* iff the response exists, has the list payload the extractor reads, the
\* list is not empty and item[0] is of the wanted kind; the value is that of
\* item[0].  With item[0] of another kind the result is None whatever comes
\* later in the list, and the request is not consulted.
Thm_C17_ListItemZeroOnly ==
    tx_call.fn \in ListExtractors =>
       LET item0 == Item0Of(ListOf(tx_call.fn), ItemOf(tx_call.fn))
       IN  /\ tx_ret.out # None <=> item0 # None
           /\ item0 # None => tx_ret.out = Some(FieldOf(tx_call.fn, item0[1]))

\* C17 witness: vendor_id is None on a ListIdentity response whose item[0]
\* is not an Identity item and whose item[1] is, while the request is a
\* ListIdentity PDU whose item[0] is an Identity item
Wit_C17_LaterIdentityNotRead ==
    /\ IsTxCall("vendor_id_match")
    /\ tx.response # None
    /\ tx.response[1].payload.kind = "ListIdentity"
    /\ Len(tx.response[1].payload.items) = 2
    /\ tx.response[1].payload.items[1].payload.kind # "Identity"
    /\ tx.response[1].payload.items[2].payload.kind = "Identity"
    /\ tx.request # None
    /\ tx.request[1].payload.kind = "ListIdentity"
    /\ Len(tx.request[1].payload.items) >= 1
    /\ tx.request[1].payload.items[1].payload.kind = "Identity"
    /\ tx_ret.out = None

\* the protocol_version the PDU pduo offers as a RegisterSession payload
RegisterSessionVersion(pduo) ==
    IF pduo # None /\ pduo[1].payload.kind = "RegisterSession"
    THEN Some(pduo[1].payload.protocol_version)
    ELSE None

\* the protocol_version of item[0] of the response list of the kind `list`
Item0Version(list, item) ==
    IF Item0Of(list, item) # None
    THEN Some(Item0Of(list, item)[1].protocol_version)
    ELSE None

\* the first of the Option values of a list that is not None
RECURSIVE FirstSome(_)
FirstSome(l) ==
    IF l = <<>> THEN None
    ELSE IF Head(l) # None THEN Head(l)
    ELSE FirstSome(Tail(l))

\* C18 as claimed: protocol_version is the first available of the
\* RegisterSession payload of the request or of the response, item[0] of a
\* ListServices response, item[0] of a ListIdentity response, and None only
\* when the transaction offers none of these.
Orig_C18_FirstSourceOfTransaction ==
    IsTxCall("protocol_version_match") =>
       tx_ret.out =
          FirstSome(<<RegisterSessionVersion(tx.request),
                      RegisterSessionVersion(tx.response),
                      Item0Version("ListServices", "Services"),
                      Item0Version("ListIdentity", "Identity")>>)

\* C18 as amended: the sources are those of the PDU of the evaluated
\* direction only.  Under to-server evaluation protocol_version is that of
\* the request's RegisterSession payload; under to-client evaluation it is
\* the first available of the response's RegisterSession payload, item[0]
\* of a ListServices response, item[0] of a ListIdentity response.  It is
\* None only when the PDU of the evaluated direction offers none of these.
Thm_C18_FirstSourceOfDirection ==
    IsTxCall("protocol_version_match") =>
       tx_ret.out =
          IF tx_call.direction = ToServer
          THEN RegisterSessionVersion(tx.request)
          ELSE FirstSome(<<RegisterSessionVersion(tx.response),
                           Item0Version("ListServices", "Services"),
                           Item0Version("ListIdentity", "Identity")>>)

\* C18 witness: under to-client evaluation the version of item[0] of a
\* ListServices response has been returned, not that of the request's
\* RegisterSession payload
Wit_C18_ResponseListServices ==
    /\ IsTxCall("protocol_version_match")
    /\ tx_call.direction = ToClient
    /\ RegisterSessionVersion(tx.request) # None
    /\ Item0Version("ListServices", "Services") # None
    /\ Item0Version("ListServices", "Services") # RegisterSessionVersion(tx.request)
    /\ tx_ret.out = Item0Version("ListServices", "Services")

\* the consulted PDU of a CIP keyword holds no Data item to evaluate
NoCipData_Consulted == DataPlaces(ConsultedPdu(tx_call)) = {}

SameRunAgain(prev, call) ==
    /\ prev.call.fn # "none"
    /\ prev.call.fn = call.fn
    /\ prev.call.direction = call.direction
    /\ prev.call.ctx = call.ctx

ServiceData(c) == tx_cip_data(ConsultedPdu(c))

\* C24: the service/class/attribute match is request-side only: it never
\* reports a match on a CipData whose content is a Response, and a
\* cip_service predicate evaluated to-client never matches.
Orig_C24_RequestSideOnly ==
    IsTxCall("cipservice_match") =>
       /\ (/\ ServiceData(tx_call) # None
           /\ ServiceData(tx_call)[1].cipdir.dir = "Response")
          => tx_ret.ret = 0
       /\ tx_call.direction = ToClient => tx_ret.ret = 0

\* C24 as amended: only the class and attribute constraints are
\* request-side.  On a Response whose service is the predicate's, the match
\* is reported exactly when the predicate has no class; a Response of
\* another service matches only through the entries of a Multiple-Service
\* envelope.  Evaluated to-client, cip_service matches when the first Data
\* item of the response does.
Thm_C24_ClassIsRequestSide ==
    (/\ IsTxCall("cipservice_match")
     /\ ServiceData(tx_call) # None
     /\ ServiceData(tx_call)[1].cipdir.dir = "Response")
    => LET d == ServiceData(tx_call)[1]
       IN  /\ d.service = tx_call.ctx.service
              => (tx_ret.ret = 1 <=> tx_call.ctx.class = None)
           /\ d.service # tx_call.ctx.service
              => (tx_ret.ret = 1 <=>
                    /\ IsEnvelope(d)
                    /\ \E k \in 1..Len(PacketList(d)) :
                          CipLevel(tx_call, PacketList(d)[k]) = 1)

\* C24 witness: evaluated to-client, a service-only predicate has matched a
\* Response of its service
Wit_C24_ResponseMatchedToClient ==
    /\ IsTxCall("cipservice_match")
    /\ tx_call.direction = ToClient
    /\ ServiceData(tx_call) # None
    /\ ServiceData(tx_call)[1].cipdir.dir = "Response"
    /\ tx_call.ctx.class = None
    /\ tx.request = None
    /\ tx_ret.ret = 1

\* the keywords whose entry point takes no direction
FixedPduCallbacks == CipCallbacks \ {"cipservice_match"}

\* the callback of the call c run on the transaction t
RunCipCallback(c, t) ==
    CASE c.fn = "cipservice_match" -> cipservice_match(t, c.direction, c.ctx)
      [] c.fn = "cip_status_match" -> cip_status_match(t, c.ctx)
      [] c.fn = "cip_extendedstatus_match" -> cip_extendedstatus_match(t, c.ctx)
      [] c.fn = "cip_class_match" -> cip_class_match(t, c.ctx)
      [] c.fn = "cip_instance_match" -> cip_instance_match(t, c.ctx)
      [] c.fn = "cip_attribute_match" -> cip_attribute_match(t, c.ctx)

\* the keyword of the call c consults the request
ConsultsRequest(c) ==
    \/ c.fn \in {"cip_class_match", "cip_instance_match", "cip_attribute_match"}
    \/ c.fn = "cipservice_match" /\ c.direction = ToServer

\* the transaction with the PDU the call c does not consult replaced
WithOtherPdu(c, pduo) ==
    IF ConsultsRequest(c) THEN [tx EXCEPT !.response = pduo]
    ELSE [tx EXCEPT !.request = pduo]

\* the run before the last one was of the same keyword with the same
\* predicate, under the other direction flags
SameRunOtherDirection(prev, call) ==
    /\ prev.call.fn # "none"
    /\ prev.call.fn = call.fn
    /\ prev.call.ctx = call.ctx
    /\ prev.call.direction # call.direction

\* C27: the PDU a CIP keyword consults is fixed per keyword: cip_class,
\* cip_instance and cip_attribute evaluate the request, cip_status and
\* cip_extendedstatus the response, and only cip_service selects the request
\* (to-server) or the response (to-client).  For the five fixed keywords a
\* run under the other direction flags returns the same result, and for all
\* six the result does not depend on the content of the other PDU.
Thm_C27_ConsultedPduFixed ==
    tx_call.fn \in CipCallbacks =>
       /\ \A pduo \in BasicPdus :
             RunCipCallback(tx_call, WithOtherPdu(tx_call, pduo)) = tx_ret
       /\ (tx_call.fn \in FixedPduCallbacks
           /\ SameRunOtherDirection(tx_prev, tx_call))
          => tx_prev.ret = tx_ret
       /\ (tx_ret.ret = 1 /\ ConsultsRequest(tx_call)) => tx.request # None
       /\ (tx_ret.ret = 1 /\ ~ConsultsRequest(tx_call)) => tx.response # None

\* C27 witness: cip_status has matched the response under both direction
\* flags, next to a request that holds a CIP message of its own
Wit_C27_StatusUnderBothDirections ==
    /\ IsTxCall("cip_status_match")
    /\ SameRunOtherDirection(tx_prev, tx_call)
    /\ DataPlaces(tx.request) # {}
    /\ tx_prev.ret.ret = 1
    /\ tx_ret.ret = 1

\* cip_service is the keyword that reads the direction: the same predicate
\* has matched under one direction and not under the other
Wit_C27_ServiceByDirection ==
    /\ IsTxCall("cipservice_match")
    /\ SameRunOtherDirection(tx_prev, tx_call)
    /\ tx_prev.ret.ret # tx_ret.ret

(***************************************************************************)
(* Further claims about the match functions (specification SpecMatch).     *)
(***************************************************************************)
\* the position of the node whose packet_list holds the node at p
ParentOf(p) == SubSeq(p, 1, Len(p) - 1)

\* every entry evaluated lies in the packet_list of a CipData whose service
\* is CIP_MULTIPLE_SERVICE
EntriesOnlyUnderMultipleService ==
    \A j \in 1..Len(m_trace) :
       m_trace[j] # <<>>
       => NodeAt(m_d, ParentOf(m_trace[j])).service = CIP_MULTIPLE_SERVICE

\* d without its packet_list: what the direct check of d reads
Stripped(d) == [d EXCEPT !.cipdir.payload = OtherPayload]

\* C25: in every match family the evaluator recurses into a packet_list
\* only when the CipData's service equals CIP_MULTIPLE_SERVICE; the entries
\* of a CipData of any other service are never evaluated and cannot produce
\* a match, even when its payload is of the Multiple variant.
Orig_C25_RecursionByServiceNumber ==
    m_call # NoCall =>
       /\ EntriesOnlyUnderMultipleService
       /\ (m_d.service # CIP_MULTIPLE_SERVICE /\ PacketList(m_d) # <<>>)
          => m_ret = EvalAlone(m_call, Stripped(m_d))

\* C25 as amended: only the service family tests the service number.  The
\* status, extended-status, segment and attribute families recurse whenever
\* the direct check has failed on a CipData of the direction they read whose
\* payload is of the Multiple variant, whatever its service: the result is 1
\* exactly when the direct check holds or some entry matches.
Thm_C25_RecursionByPayloadVariant ==
    /\ IsCall("service") => EntriesOnlyUnderMultipleService
    /\ (/\ m_call.family \in RecursiveFamilies
        /\ m_d.cipdir.dir = FamilyDir(m_call.family)
        /\ m_d.cipdir.payload.kind = "Multiple")
       => /\ m_ret = 1 <=> \/ EvalAlone(m_call, Stripped(m_d)) = 1
                           \/ SomeEntryMatches(m_call, m_d)
          /\ (EvalAlone(m_call, Stripped(m_d)) = 0
              /\ PacketList(m_d) # <<>>)
             => \E j \in 1..Len(m_trace) : m_trace[j] = <<1>>

\* C25 witness: a status match found in the packet_list of a Response whose
\* service is not CIP_MULTIPLE_SERVICE
Wit_C25_EntryUnderOtherService ==
    /\ IsCall("status")
    /\ m_d.service # CIP_MULTIPLE_SERVICE
    /\ m_d.cipdir.dir = "Response"
    /\ m_d.cipdir.payload.kind = "Multiple"
    /\ ~detect_match_uint(m_call.ctx, m_d.cipdir.status)
    /\ SomeEntryMatches(m_call, m_d)
    /\ m_ret = 1

\* the predicate without its attribute, and without its class and attribute
DropAttribute(ctx) == DetectCipServiceData(ctx.service, ctx.class, None)
DropClass(ctx) == DetectCipServiceData(ctx.service, None, None)

\* C28: dropping constraints never loses a match: when {service, class,
\* attribute} matches a CipData tree so does {service, class}, and when
\* {service, class} matches so does {service}.
Thm_C28_DroppingNeverLosesMatch ==
    (IsCall("service") /\ m_ret = 1) =>
       /\ enip_cip_match_service(m_d, DropAttribute(m_call.ctx), <<>>).ret = 1
       /\ enip_cip_match_service(m_d, DropClass(m_call.ctx), <<>>).ret = 1

\* C28 witness: a predicate with class and attribute has matched through
\* the packet_list of an envelope
Wit_C28_FullPredicateInEnvelope ==
    /\ IsCall("service")
    /\ m_call.ctx.class # None
    /\ m_call.ctx.attribute # None
    /\ m_d.service # m_call.ctx.service
    /\ Len(PacketList(m_d)) >= 1
    /\ m_ret = 1

\* the greater of two numbers
Max2(a, b) == IF a >= b THEN a ELSE b

RECURSIVE Nesting(_)
RECURSIVE NestingOfList(_, _)
\* the levels of CipData in the tree d: 1 for a CipData without entries
Nesting(d) == 1 + NestingOfList(PacketList(d), 1)
NestingOfList(list, k) ==
    IF k > Len(list) THEN 0
    ELSE Max2(Nesting(list[k]), NestingOfList(list, k + 1))

DeepestNesting ==
    LET deepest == CHOOSE d \in CipDatas :
                      \A e \in CipDatas : Nesting(e) <= Nesting(d)
    IN  Nesting(deepest)

RECURSIVE LongestPosition(_, _)
LongestPosition(trace, k) ==
    IF k > Len(trace) THEN 0
    ELSE Max2(Len(trace[k]), LongestPosition(trace, k + 1))

\* the calls of the evaluator active at once when it is deepest: the call
\* on the node at position p runs inside Len(p) calls on the nodes above it
ActiveCalls(trace) == 1 + LongestPosition(trace, 1)

\* C26: the recursion depth of each evaluator is bounded by a fixed cap: on
\* envelopes nested deep enough, the number of simultaneously active
\* recursive calls stays below the nesting of the tree.  Stated here for the
\* deepest trees under evaluation.
Orig_C26_DepthCapped ==
    m_call # NoCall => ActiveCalls(m_trace) < DeepestNesting

\* What the evaluators do instead: they carry no depth and descend as far
\* as the tree goes, one active call per level.
DepthFollowsNesting ==
    m_call # NoCall => ActiveCalls(m_trace) <= Nesting(m_d)

\* an evaluation that went down to the last level of one of the deepest
\* trees
DeepestReached ==
    /\ m_call # NoCall
    /\ Nesting(m_d) = DeepestNesting
    /\ ActiveCalls(m_trace) = Nesting(m_d)

(***************************************************************************)
(* Keyword registration and the life of a predicate: setup, match, free.   *)
(* A keyword is named by the stem of its callbacks (cipservice_setup,      *)
(* cipservice_match, cipservice_free: "cipservice"); the statics           *)
(* G_ENIP_<STEM>_KW_ID and G_ENIP_<STEM>_BUFFER_ID by the keyword whose    *)
(* stem they carry; a predicate by its place in heap.                      *)
(***************************************************************************)
\* the keywords SCDetectEnipRegister registers, in its order
RegistrationOrder ==
    << "cipservice", "capabilities", "cip_attribute", "cip_class",
       "vendor_id", "status", "state", "serial", "revision",
       "protocol_version", "product_code", "command",
       "identity_status", "device_type", "cip_status", "cip_instance",
       "cip_extendedstatus" >>

Keywords == { RegistrationOrder[k] : k \in DOMAIN RegistrationOrder }
StickyBuffers == {"product_name", "service_name"}

\* the parser each setup calls on the rule text
SetupParser(kw) ==
    CASE kw = "cipservice" -> "parse_cip_service"
      [] kw = "capabilities" -> "SCDetectU16Parse"
      [] kw = "cip_attribute" -> "SCDetectU32Parse"
      [] kw = "cip_class" -> "SCDetectU32Parse"
      [] kw = "vendor_id" -> "SCDetectU16Parse"
      [] kw = "status" -> "parse_status"
      [] kw = "state" -> "SCDetectU8Parse"
      [] kw = "serial" -> "SCDetectU32Parse"
      [] kw = "revision" -> "SCDetectU16Parse"
      [] kw = "protocol_version" -> "SCDetectU16Parse"
      [] kw = "product_code" -> "SCDetectU16Parse"
      [] kw = "command" -> "parse_command"
      [] kw = "identity_status" -> "SCDetectU16Parse"
      [] kw = "device_type" -> "SCDetectU16Parse"
      [] kw = "cip_status" -> "SCDetectU8Parse"
      [] kw = "cip_instance" -> "SCDetectU32Parse"
      [] kw = "cip_extendedstatus" -> "SCDetectU16Parse"

\* the type each parser boxes
ParserKind(parser) ==
    CASE parser = "parse_cip_service" -> "DetectCipServiceData"
      [] parser = "SCDetectU8Parse" -> "DetectUintData<u8>"
      [] parser = "SCDetectU16Parse" -> "DetectUintData<u16>"
      [] parser = "SCDetectU32Parse" -> "DetectUintData<u32>"
      [] parser = "parse_command" -> "DetectUintData<u16>"
      [] parser = "parse_status" -> "DetectUintData<u32>"

\* a variant in which cip_status_match reads its predicate as 16 bits wide
MatchCast_CipStatusAsU16(kw) ==
    IF kw = "cip_status" THEN "DetectUintData<u16>"
    ELSE ParserKind(SetupParser(kw))

\* the type each match callback casts ctx to
MatchCast(kw) ==
    CASE kw = "cipservice" -> "DetectCipServiceData"
      [] kw = "capabilities" -> "DetectUintData<u16>"
      [] kw = "cip_attribute" -> "DetectUintData<u32>"
      [] kw = "cip_class" -> "DetectUintData<u32>"
      [] kw = "vendor_id" -> "DetectUintData<u16>"
      [] kw = "status" -> "DetectUintData<u32>"
      [] kw = "state" -> "DetectUintData<u8>"
      [] kw = "serial" -> "DetectUintData<u32>"
      [] kw = "revision" -> "DetectUintData<u16>"
      [] kw = "protocol_version" -> "DetectUintData<u16>"
      [] kw = "product_code" -> "DetectUintData<u16>"
      [] kw = "command" -> "DetectUintData<u16>"
      [] kw = "identity_status" -> "DetectUintData<u16>"
      [] kw = "device_type" -> "DetectUintData<u16>"
      [] kw = "cip_status" -> "DetectUintData<u8>"
      [] kw = "cip_instance" -> "DetectUintData<u32>"
      [] kw = "cip_extendedstatus" -> "DetectUintData<u16>"

\* the type each free callback releases ctx as
FreeCast(kw) ==
    CASE kw = "cipservice" -> "DetectCipServiceData"
      [] kw = "capabilities" -> "DetectUintData<u16>"
      [] kw = "cip_attribute" -> "DetectUintData<u32>"
      [] kw = "cip_class" -> "DetectUintData<u32>"
      [] kw = "vendor_id" -> "DetectUintData<u16>"
      [] kw = "status" -> "DetectUintData<u32>"
      [] kw = "state" -> "DetectUintData<u8>"
      [] kw = "serial" -> "DetectUintData<u32>"
      [] kw = "revision" -> "DetectUintData<u16>"
      [] kw = "protocol_version" -> "DetectUintData<u16>"
      [] kw = "product_code" -> "DetectUintData<u16>"
      [] kw = "command" -> "DetectUintData<u16>"
      [] kw = "identity_status" -> "DetectUintData<u16>"
      [] kw = "device_type" -> "DetectUintData<u16>"
      [] kw = "cip_status" -> "DetectUintData<u8>"
      [] kw = "cip_instance" -> "DetectUintData<u32>"
      [] kw = "cip_extendedstatus" -> "DetectUintData<u16>"

\* a variant in which cip_status_setup passes the statics of enip.status
SetupStatic_CipStatusAsStatus(kw) ==
    IF kw = "cip_status" THEN "status" ELSE kw

\* the statics each setup passes to SCSigMatchAppendSMToList: its own
SetupStatic(kw) == kw

\* the free callback each setup calls when the append fails: its own
SetupFree(kw) == kw

\* the callbacks of the table element registered when the static's keyword
\* id was assigned
Registered(static) == [match |-> static, setup |-> static, free |-> static]

ALPROTO_UNKNOWN == "unknown"
ALPROTO_ENIP == "enip"
ALPROTO_OTHER == "other"

\* SCDetectSignatureSetAppProto(s, alproto): refused when the signature is
\* bound to another protocol
SCDetectSignatureSetAppProto(s, alproto) ==
    IF s.alproto \in {ALPROTO_UNKNOWN, alproto}
    THEN [ret |-> 0, s |-> [s EXCEPT !.alproto = alproto]]
    ELSE [ret |-> -1, s |-> s]

\* a predicate on the heap
Box(kind) ==
    [kind |-> kind, frees |-> 0, released_as |-> "none", by |-> "none",
     attached |-> FALSE]

\* Box::from_raw / SCDetectU*Free on address a, by a setup or by the engine
Release(h, a, kind, by) ==
    [h EXCEPT ![a] = [@ EXCEPT !.frees = @ + 1, !.released_as = kind,
                                !.by = by]]

keyword_free(h, kw, a, by) == Release(h, a, FreeCast(kw), by)

SigMatch(kw_id, ctx, buffer_id, kw) ==
    [kw_id |-> kw_id, ctx |-> ctx, buffer_id |-> buffer_id, kw |-> kw]

\* SCSigMatchAppendSMToList, when it does not return null
SCSigMatchAppendSMToList(s, kw_id, ctx, buffer_id, kw) ==
    [s EXCEPT !.list = Append(@, SigMatch(kw_id, ctx, buffer_id, kw))]

RECURSIVE ParseU16From(_, _)
ParseU16From(t, acc) ==
    IF t = <<>> THEN Some(acc)
    ELSE LET nxt == acc * 10 + DigitVal(Head(t))
         IN  IF nxt > 65535 THEN None ELSE ParseU16From(Tail(t), nxt)

\* SCDetectU8Parse, SCDetectU16Parse, SCDetectU32Parse, and the numeric
\* branch of detect_parse_uint_enum, on a plain number
DetectUintParse(kind, raw) ==
    IF raw = <<>> \/ \E k \in 1..Len(raw) : raw[k] \notin DigitChars
    THEN None
    ELSE LET v == CASE kind = "DetectUintData<u8>" -> ParseU8(raw)
                    [] kind = "DetectUintData<u16>" -> ParseU16From(raw, 0)
                    [] kind = "DetectUintData<u32>" -> ParseU32(raw)
         IN  IF v = None THEN None ELSE Some(DetectUintData("Equal", v[1]))

parse_cip_service(raw) ==
    LET r == enip_parse_cip_service(raw)
    IN  IF r.ok THEN Some(r.out) ELSE None

\* the predicate a setup parses out of the rule text; None is the null
\* pointer
SetupParse(kw, raw) ==
    IF SetupParser(kw) = "parse_cip_service" THEN parse_cip_service(raw)
    ELSE DetectUintParse(ParserKind(SetupParser(kw)), raw)

SetupResult(ret, s, h, proto, parsed, appended, box) ==
    [ret |-> ret, s |-> s, heap |-> h, proto |-> proto, parsed |-> parsed,
     appended |-> appended, box |-> box]

\* a variant that parses the rule text before it asks for the protocol
keyword_setup_ParseFirst(kw, s, h, raw, append_ok) ==
    LET ctx == SetupParse(kw, raw)
        h1 == IF ctx = None THEN h
              ELSE Append(h, Box(ParserKind(SetupParser(kw))))
        a == Len(h1)
        app == SCDetectSignatureSetAppProto(s, ALPROTO_ENIP)
    IN  IF app.ret # 0
        THEN SetupResult(-1, s, h1, FALSE, ctx # None, FALSE,
                         IF ctx = None THEN 0 ELSE a)
        ELSE IF ctx = None
        THEN SetupResult(-1, app.s, h, TRUE, FALSE, FALSE, 0)
        ELSE IF ~append_ok
        THEN SetupResult(-1, app.s, keyword_free(h1, SetupFree(kw), a, "setup"),
                         TRUE, TRUE, FALSE, a)
        ELSE SetupResult(0,
                 SCSigMatchAppendSMToList(app.s, SetupStatic(kw), a,
                                          SetupStatic(kw), kw),
                 [h1 EXCEPT ![a].attached = TRUE], TRUE, TRUE, TRUE, a)

\* a variant that returns -1 on a failed append without calling free
keyword_setup_NoFree(kw, s, h, raw, append_ok) ==
    LET app == SCDetectSignatureSetAppProto(s, ALPROTO_ENIP)
        ctx == SetupParse(kw, raw)
        h1 == Append(h, Box(ParserKind(SetupParser(kw))))
        a == Len(h1)
    IN  IF app.ret # 0
        THEN SetupResult(-1, s, h, FALSE, FALSE, FALSE, 0)
        ELSE IF ctx = None
        THEN SetupResult(-1, app.s, h, TRUE, FALSE, FALSE, 0)
        ELSE IF ~append_ok
        THEN SetupResult(-1, app.s, h1, TRUE, TRUE, FALSE, a)
        ELSE SetupResult(0,
                 SCSigMatchAppendSMToList(app.s, SetupStatic(kw), a,
                                          SetupStatic(kw), kw),
                 [h1 EXCEPT ![a].attached = TRUE], TRUE, TRUE, TRUE, a)

\* <kw>_setup(de, s, raw): the signature s and the heap h it leaves, and
\* what it returns; append_ok says whether SCSigMatchAppendSMToList finds
\* memory.  proto, parsed and appended record how far it went, box the
\* predicate it allocated (0: none).
keyword_setup(kw, s, h, raw, append_ok) ==
    LET app == SCDetectSignatureSetAppProto(s, ALPROTO_ENIP)
        ctx == SetupParse(kw, raw)
        h1 == Append(h, Box(ParserKind(SetupParser(kw))))
        a == Len(h1)
    IN  IF app.ret # 0
        THEN SetupResult(-1, s, h, FALSE, FALSE, FALSE, 0)
        ELSE IF ctx = None
        THEN SetupResult(-1, app.s, h, TRUE, FALSE, FALSE, 0)
        ELSE IF ~append_ok
        THEN SetupResult(-1, app.s, keyword_free(h1, SetupFree(kw), a, "setup"),
                         TRUE, TRUE, FALSE, a)
        ELSE SetupResult(0,
                 SCSigMatchAppendSMToList(app.s, SetupStatic(kw), a,
                                          SetupStatic(kw), kw),
                 [h1 EXCEPT ![a].attached = TRUE], TRUE, TRUE, TRUE, a)

\* product_name_setup, service_name_setup: no predicate; active_ok says
\* whether SCDetectBufferSetActiveList accepts the buffer
sticky_buffer_setup(kw, s, active_ok) ==
    LET app == SCDetectSignatureSetAppProto(s, ALPROTO_ENIP)
    IN  IF app.ret # 0 THEN [ret |-> -1, s |-> s]
        ELSE IF ~active_ok THEN [ret |-> -1, s |-> app.s]
        ELSE [ret |-> 0, s |-> [app.s EXCEPT !.active = kw]]

RECURSIVE FreeAll(_, _, _)
\* the engine frees a signature: for each SigMatch of the list, the Free
\* callback registered under its keyword id, on its ctx
FreeAll(h, list, k) ==
    IF k > Len(list) THEN h
    ELSE FreeAll(keyword_free(h, Registered(list[k].kw_id).free,
                              list[k].ctx, "free"),
                 list, k + 1)

(***************************************************************************)
(* Rules under load.                                                       *)
(***************************************************************************)
\* "12" parses for every keyword, "202" for every keyword but cip_service,
\* "x" for none
RawTexts == { <<"1", "2">>, <<"2", "0", "2">>, <<"x">> }

Option(kw, raw) == [kw |-> kw, raw |-> raw]

FirstOptions ==
    { Option(kw, raw) : kw \in Keywords, raw \in RawTexts }
    \cup { Option(kw, <<>>) : kw \in StickyBuffers }

\* the keywords of the options after the first: one of each predicate kind
LaterKeywords == {"cipservice", "state", "command", "status"}

LaterOptions == { Option(kw, raw) : kw \in LaterKeywords, raw \in RawTexts }

RECURSIVE RulesOfLength(_)
RulesOfLength(n) ==
    IF n = 1 THEN { <<o>> : o \in FirstOptions }
    ELSE { Append(r, o) : r \in RulesOfLength(n - 1), o \in LaterOptions }

Rules == UNION { RulesOfLength(n) : n \in 1..MaxOptions }

\* the signature as the rule parser hands it to the first setup: bound to
\* no protocol yet, or to another one by an earlier keyword of the rule
NewSignature(rule, alproto) ==
    [rule |-> rule, next |-> 1, alproto |-> alproto, list |-> <<>>,
     active |-> "none", pc |-> "loading"]

(***************************************************************************)
(* Rule load and unload as a state machine: the engine calls the setup of  *)
(* each option of the rule in turn, frees the signature when one fails or  *)
(* when the rule is unloaded, and may load the rule again.                 *)
(***************************************************************************)
InitRules ==
    /\ sig \in { NewSignature(r, a) :
                   r \in Rules, a \in {ALPROTO_UNKNOWN, ALPROTO_OTHER} }
    /\ heap = <<>>
    /\ setup_call = NoSetupCall
    /\ rule_parts = [n |-> 0]
    /\ rule_text = <<>>
    /\ parse_pc = "idle"
    /\ parse_ret = NomErr
    /\ m_d = NoCipData
    /\ m_call = NoCall
    /\ m_ret = 0
    /\ m_trace = <<>>
    /\ NoTransaction
    /\ NoThreads

\* the engine after a setup returned ret on option sig.next
AfterSetup(s, ret) ==
    IF ret # 0 THEN [s EXCEPT !.pc = "failed"]
    ELSE [s EXCEPT !.next = @ + 1,
                   !.pc = IF s.next = Len(s.rule) THEN "loaded" ELSE "loading"]

OtherVarsUnchanged ==
    /\ UNCHANGED parse_vars
    /\ UNCHANGED match_vars
    /\ UNCHANGED tx_vars
    /\ UNCHANGED thread_vars

\* the engine calls <kw>_setup on the next option of the rule
SetupStep(kw) ==
    /\ sig.pc = "loading"
    /\ sig.rule[sig.next].kw = kw
    /\ \E append_ok \in BOOLEAN :
          LET raw == sig.rule[sig.next].raw
              r == keyword_setup(kw, sig, heap, raw, append_ok)
          IN  /\ sig' = AfterSetup(r.s, r.ret)
              /\ heap' = r.heap
              /\ setup_call' =
                    [fn |-> "setup", kw |-> kw, raw |-> raw,
                     append_ok |-> append_ok, ret |-> r.ret,
                     proto |-> r.proto, parsed |-> r.parsed,
                     appended |-> r.appended, box |-> r.box,
                     alproto_before |-> sig.alproto,
                     list_before |-> sig.list, boxes_before |-> Len(heap)]
    /\ OtherVarsUnchanged

CipServiceSetup == SetupStep("cipservice")
CapabilitiesSetup == SetupStep("capabilities")
CipAttributeSetup == SetupStep("cip_attribute")
CipClassSetup == SetupStep("cip_class")
VendorIdSetup == SetupStep("vendor_id")
StatusSetup == SetupStep("status")
StateSetup == SetupStep("state")
SerialSetup == SetupStep("serial")
RevisionSetup == SetupStep("revision")
ProtocolVersionSetup == SetupStep("protocol_version")
ProductCodeSetup == SetupStep("product_code")
CommandSetup == SetupStep("command")
IdentityStatusSetup == SetupStep("identity_status")
DeviceTypeSetup == SetupStep("device_type")
CipStatusSetup == SetupStep("cip_status")
CipInstanceSetup == SetupStep("cip_instance")
CipExtendedstatusSetup == SetupStep("cip_extendedstatus")

StickySetupStep(kw) ==
    /\ sig.pc = "loading"
    /\ sig.rule[sig.next].kw = kw
    /\ \E active_ok \in BOOLEAN :
          LET r == sticky_buffer_setup(kw, sig, active_ok)
          IN  /\ sig' = AfterSetup(r.s, r.ret)
              /\ setup_call' = [fn |-> "sticky_setup", kw |-> kw,
                                ret |-> r.ret]
    /\ UNCHANGED heap
    /\ OtherVarsUnchanged

ProductNameSetup == StickySetupStep("product_name")
ServiceNameSetup == StickySetupStep("service_name")

\* the engine frees the signature: after a failed setup, or when the rule
\* is unloaded
FreeSignature ==
    /\ sig.pc \in {"failed", "loaded"}
    /\ heap' = FreeAll(heap, sig.list, 1)
    /\ sig' = [sig EXCEPT !.list = <<>>, !.pc = "unloaded"]
    /\ setup_call' = [fn |-> "free_signature"]
    /\ OtherVarsUnchanged

\* the engine loads the rule again, into a new signature
LoadAgain ==
    /\ sig.pc = "unloaded"
    /\ Len(heap) + Len(sig.rule) <= MaxBoxes
    /\ \E a \in {ALPROTO_UNKNOWN, ALPROTO_OTHER} :
          sig' = NewSignature(sig.rule, a)
    /\ setup_call' = [fn |-> "load"]
    /\ UNCHANGED heap
    /\ OtherVarsUnchanged

NextRules ==
    \/ CipServiceSetup
    \/ CapabilitiesSetup
    \/ CipAttributeSetup
    \/ CipClassSetup
    \/ VendorIdSetup
    \/ StatusSetup
    \/ StateSetup
    \/ SerialSetup
    \/ RevisionSetup
    \/ ProtocolVersionSetup
    \/ ProductCodeSetup
    \/ CommandSetup
    \/ IdentityStatusSetup
    \/ DeviceTypeSetup
    \/ CipStatusSetup
    \/ CipInstanceSetup
    \/ CipExtendedstatusSetup
    \/ ProductNameSetup
    \/ ServiceNameSetup
    \/ FreeSignature
    \/ LoadAgain

SpecRules == InitRules /\ [][NextRules]_vars

(***************************************************************************)
(* Claims about keyword setup and the life of a predicate.                 *)
(***************************************************************************)
SetupReturned == setup_call.fn = "setup"

\* what the engine's signature holds after the call, against before it
ListGrewByOne ==
    /\ Len(sig.list) = Len(setup_call.list_before) + 1
    /\ SubSeq(sig.list, 1, Len(setup_call.list_before))
          = setup_call.list_before
    /\ sig.list[Len(sig.list)].kw = setup_call.kw

ProtocolAccepted ==
    setup_call.alproto_before \in {ALPROTO_UNKNOWN, ALPROTO_ENIP}

TextParses == SetupParse(setup_call.kw, setup_call.raw) # None

\* C21: a keyword setup returns 0 only when the signature accepted the
\* protocol, the rule text parsed and the predicate was appended to the
\* match list; otherwise it returns -1 and the list holds no new predicate;
\* when the protocol is rejected the text is not parsed and no predicate is
\* allocated.
Thm_C21_SetupContract ==
    SetupReturned =>
        /\ setup_call.ret \in {0, -1}
        /\ setup_call.ret = 0 =>
              /\ ProtocolAccepted
              /\ TextParses
              /\ setup_call.append_ok
              /\ ListGrewByOne
        /\ setup_call.ret = -1 =>
              /\ ~ProtocolAccepted \/ ~TextParses \/ ~setup_call.append_ok
              /\ sig.list = setup_call.list_before
        /\ ~ProtocolAccepted =>
              /\ setup_call.ret = -1
              /\ ~setup_call.parsed
              /\ Len(heap) = setup_call.boxes_before

\* a setup refused a rule text that parses, on a signature bound to another
\* protocol
Wit_C21_RejectedBeforeParse ==
    /\ SetupReturned
    /\ ~ProtocolAccepted
    /\ TextParses
    /\ setup_call.ret = -1

\* a setup succeeded on a signature that already held a predicate
Wit_C21_SecondPredicateAppended ==
    /\ SetupReturned
    /\ setup_call.ret = 0
    /\ Len(setup_call.list_before) = 1

\* a setup failed on each of the three grounds
Wit_C21_SyntaxError ==
    /\ SetupReturned
    /\ ProtocolAccepted
    /\ ~TextParses
    /\ setup_call.ret = -1

Wit_C21_AppendFailure ==
    /\ SetupReturned
    /\ ProtocolAccepted
    /\ TextParses
    /\ ~setup_call.append_ok
    /\ setup_call.ret = -1

Attached(a) == \E k \in DOMAIN sig.list : sig.list[k].ctx = a

AttachedOnce(a) ==
    Cardinality({ k \in DOMAIN sig.list : sig.list[k].ctx = a }) <= 1

\* C22: over loads and unloads every predicate a setup allocated is released
\* exactly once, by the setup when the append failed and by the keyword's
\* free callback otherwise: none is released twice, none is leaked, none is
\* both attached to a signature and released by the setup.
Thm_C22_ReleasedExactlyOnce ==
    \A a \in DOMAIN heap :
        /\ heap[a].frees <= 1
        /\ AttachedOnce(a)
        /\ heap[a].frees = 0 => Attached(a) /\ heap[a].attached
        /\ heap[a].frees = 1 =>
              /\ ~Attached(a)
              /\ heap[a].by = (IF heap[a].attached THEN "free" ELSE "setup")
        /\ sig.pc = "unloaded" => heap[a].frees = 1

\* a rule was unloaded after one of its predicates was released by its
\* setup and another by the free callback
Wit_C22_BothReleasePaths ==
    /\ sig.pc = "unloaded"
    /\ \E a \in DOMAIN heap : heap[a].by = "setup" /\ heap[a].frees = 1
    /\ \E a \in DOMAIN heap : heap[a].by = "free" /\ heap[a].frees = 1

\* a rule is loaded a second time while the predicates of its first load
\* are all released
Wit_C22_LoadedTwice ==
    /\ sig.pc = "loaded"
    /\ \E a \in DOMAIN heap : heap[a].frees = 1 /\ heap[a].by = "free"
    /\ \E a \in DOMAIN heap : heap[a].frees = 0

\* C29: for every registered keyword, the kind of predicate its setup
\* stores is the kind its match callback reads and its free callback
\* releases, and the setup attaches it under the keyword's own keyword id
\* and buffer id.
Thm_C29_KindAgrees ==
    /\ \A k \in DOMAIN sig.list :
          LET e == sig.list[k]
              cb == Registered(e.kw_id)
          IN  /\ e.kw_id = e.kw
              /\ e.buffer_id = e.kw
              /\ cb.setup = e.kw
              /\ heap[e.ctx].kind = MatchCast(cb.match)
              /\ heap[e.ctx].kind = FreeCast(cb.free)
    /\ \A a \in DOMAIN heap :
          heap[a].frees > 0 => heap[a].released_as = heap[a].kind
    /\ \A kw \in Keywords :
          /\ ParserKind(SetupParser(kw)) = MatchCast(Registered(kw).match)
          /\ ParserKind(SetupParser(kw)) = FreeCast(Registered(kw).free)

\* a loaded rule holds an 8-bit cip_status predicate and a 32-bit status
\* predicate
Wit_C29_TwoWidthsAttached ==
    /\ sig.pc = "loaded"
    /\ Len(sig.list) = 2
    /\ sig.list[1].kw = "cip_status"
    /\ sig.list[2].kw = "status"
    /\ heap[sig.list[1].ctx].kind = "DetectUintData<u8>"
    /\ heap[sig.list[2].ctx].kind = "DetectUintData<u32>"

(***************************************************************************)
(* Match callbacks on several threads.  The engine's worker threads run    *)
(* the match callback of one loaded rule at the same time, each on the     *)
(* transaction of its own flow; all are handed the same ctx pointer.  A    *)
(* call takes two steps: the entry, where the callback casts its pointers, *)
(* and the evaluation, which reads the predicate through ctx and returns.  *)
(***************************************************************************)
Threads == 1..MaxThreads

ThreadKeywords == {"cipservice", "cip_status", "state", "status"}

\* the predicates a rule may hold for the keyword
ThreadCtxs(kw) ==
    CASE kw = "cipservice" -> TxServiceCtxs
      [] kw = "cip_status" -> TxU8Ctxs
      [] kw = "state" -> TxU8Ctxs
      [] kw = "status" -> TxU32Ctxs

\* the statics of the module as SCDetectEnipRegister left them
RegisteredStatics == [k \in DOMAIN RegistrationOrder |-> RegistrationOrder[k]]

SharedState(kw, ctx) == [kw |-> kw, ctx |-> ctx, statics |-> RegisteredStatics]

ThreadPdus ==
    { Some(EnipPdu(Header1, PayloadCip(<<EnipItem(ItemData(CipA))>>))),
      Some(EnipPdu(Header2, PayloadCip(<<EnipItem(ItemData(CipB))>>))) }

ThreadTxs == { EnipTransaction(q, r) : q \in ThreadPdus, r \in ThreadPdus }

\* the match callback registered for the keyword, on a transaction and the
\* predicate behind ctx
RunMatch(kw, t, direction, ctx) ==
    CASE kw = "cipservice" -> cipservice_match(t, direction, ctx)
      [] kw = "cip_status" -> cip_status_match(t, ctx)
      [] kw = "state" -> state_match(t, ctx)
      [] kw = "status" -> status_match(t, direction, ctx)

\* a variant in which cipservice_match marks the predicate as used
match_writes_MarksUsed(sh, kw, r) ==
    IF kw = "cipservice" THEN [sh EXCEPT !.ctx.service = 0] ELSE sh

\* what a match callback leaves in the state it shares with other calls:
\* tx and ctx are cast to shared references and no static is touched
match_writes(sh, kw, r) == sh

IdleThread(t) ==
    [pc |-> "idle", tx |-> t, direction |-> ToServer, ret |-> NoTxRet,
     alone |-> NoTxRet]

InitThreads ==
    /\ \E kw \in ThreadKeywords :
          shared \in { SharedState(kw, ctx) : ctx \in ThreadCtxs(kw) }
    /\ threads \in [Threads -> { IdleThread(t) : t \in ThreadTxs }]
    /\ NoRules
    /\ NoTransaction
    /\ rule_parts = [n |-> 0]
    /\ rule_text = <<>>
    /\ parse_pc = "idle"
    /\ parse_ret = NomErr
    /\ m_d = NoCipData
    /\ m_call = NoCall
    /\ m_ret = 0
    /\ m_trace = <<>>

ThreadFrame ==
    /\ UNCHANGED parse_vars
    /\ UNCHANGED match_vars
    /\ UNCHANGED tx_vars
    /\ UNCHANGED rules_vars

\* a thread enters the match callback; alone is what the call would return
\* were it to run to its end at once (ghost)
MatchCalled ==
    \E th \in Threads, direction \in Directions :
        /\ threads[th].pc = "idle"
        /\ threads' =
              [threads EXCEPT ![th].pc = "called",
                              ![th].direction = direction,
                              ![th].alone =
                                  RunMatch(shared.kw, threads[th].tx,
                                           direction, shared.ctx)]
        /\ UNCHANGED shared
        /\ ThreadFrame

\* the thread evaluates the predicate on its transaction and returns
MatchReturned ==
    \E th \in Threads :
        /\ threads[th].pc = "called"
        /\ LET r == RunMatch(shared.kw, threads[th].tx,
                             threads[th].direction, shared.ctx)
           IN  /\ threads' = [threads EXCEPT ![th].pc = "returned",
                                             ![th].ret = r]
               /\ shared' = match_writes(shared, shared.kw, r)
        /\ ThreadFrame

NextThreads ==
    \/ MatchCalled
    \/ MatchReturned

SpecThreads == InitThreads /\ [][NextThreads]_vars

=============================================================================
